---- MODULE Spec2Model ----
(***************************************************************************)
(* The data-access layer of alx-backend-python: the connection scope       *)
(* (with_db_connection, DatabaseConnection), the scoped query              *)
(* (ExecuteQuery), the transaction guard (transactional) and its           *)
(* composition with the connection scope (update_user_email), the retry    *)
(* policy (retry_on_failure), the result cache (cache_query), the          *)
(* streaming generators (stream_users, stream_users_in_batches,            *)
(* stream_user_ages), the lazy paginator (paginate_users,                  *)
(* lazy_pagination), the concurrent orchestrator (fetch_concurrently),     *)
(* the retried and the cached fetch (fetch_users_with_retry,               *)
(* fetch_users_with_cache), the seeding of user_data (insert_data) and     *)
(* the rate limiting of the chat application                               *)
(* (OffensiveLanguageMiddleware).                                          *)
(*                                                                         *)
(* Each component has its own variables and its own specification; a       *)
(* specification leaves the other components' variables unchanged.         *)
(*                                                                         *)
(* Exceptions are modelled by their class as far as the code's handlers    *)
(* tell them apart: "Exception" is any subclass of Exception (sqlite3 and  *)
(* psycopg2 errors included), "BaseException" is one that `except          *)
(* Exception` does not catch (KeyboardInterrupt, SystemExit,               *)
(* GeneratorExit).  print() is modelled as appending a line to a log and   *)
(* is taken never to fail.                                                 *)
(***************************************************************************)
EXTENDS Integers, Sequences, FiniteSets

\* ------------------------------------------------------------------ bounds

\* Number of calls a caller makes one after the other through the connection
\* scope and through the transaction guard.
MaxCalls == 3

\* Largest `retries` a retry_on_failure decorator is configured with, and the
\* number of calls made through it.
MaxRetries == 3

MaxRetryCalls == 2

\* Number of calls made through the cache wrapper.
MaxCacheCalls == 2

\* Largest number of rows in user_data, and largest batch_size.
MaxRows == 4

MaxBatch == 3

\* Largest page_size handed to lazy_pagination.
MaxPage == 3

\* Largest number of rows in the users table of users.db.
MaxUsers == 2

\* Largest user_id written in the CSV file, largest number of rows in it,
\* and number of runs of the seeding over it.
MaxCsvIds == 2

MaxCsvRows == 3

MaxSeedRuns == 2

\* Worker threads serving requests, client addresses, requests received, and
\* the clock: how far it moves between two readings and how far it runs.
MaxThreads == 2

MaxIps == 2

MaxRequests == 7

ClockStep == 30

MaxClock == 60

\* OffensiveLanguageMiddleware.__init__: self.max_requests, self.time_window
max_requests == 5

time_window == 60

\* ---------------------------------------------------------------- helpers

Min(a, b) == IF a <= b THEN a ELSE b

VARIABLES
    \* ---- connection scope: 1-with_db_connection.py, 0-databaseconnection.py
    conns,          \* every connection sqlite3.connect returned: [by, closes]
    sc_pc,          \* where the caller's current scoped call stands
    sc_conn,        \* wrapper's local `conn` (0: no call in progress)
    sc_exc,         \* how func / the with-body ended
    dc_made,        \* a DatabaseConnection object has been constructed
    dc_connection,  \* DatabaseConnection.connection (0: None)
    sc_calls,       \* the finished calls: [kind, conn, invoked, body, close_attempts, outcome]
    \* ---- transaction guard: 2-transactional.py
    tx_pc,          \* where the transactional wrapper stands
    tx_op,          \* how func ended in the call in progress
    tx_ops,         \* conn.commit / conn.rollback invocations of the call, in order
    tx_exc,         \* the exception being handled in the except clause
    tx_result,      \* the wrapper's local `result`
    tx_log,         \* lines printed by the call in progress
    tx_calls,       \* the finished calls
    \* ---- retry policy: 3-retry_on_failure.py
    rt_retries,     \* the decorator's `retries`
    rt_delay,       \* the decorator's `delay`
    rt_pc,          \* where the retry wrapper stands
    rt_attempt,     \* wrapper's local `attempt`
    rt_last,        \* wrapper's local `last_exception`: the invocation whose
                    \* exception it holds (0: None)
    rt_invoked,     \* invocations of func in the call in progress
    rt_events,      \* what the call in progress did, in order
    rt_calls,       \* the finished calls
    \* ---- result cache: 4-cache_query.py
    query_cache,    \* the module's global dictionary: key -> result
    ch_pc,          \* per caller: where its call of the cache wrapper stands
    ch_args,        \* per caller: how the query was passed, and its text
    ch_query,       \* per caller: wrapper's local `query`, the cache key
    ch_result,      \* per caller: wrapper's local `result`
    ch_calls,       \* the finished calls
    \* ---- streaming generators: 0-stream_users.py, 1-batch_processing.py,
    \* ---- 4-stream_ages.py
    st_kind,        \* which generator function was called
    st_batch_size,  \* stream_users_in_batches' batch_size
    st_rows,        \* the result set of the query, in the store's order
    st_gen,         \* the generator: created, suspended at its yield, finished
    st_conn,        \* the generator's connection
    st_closes,      \* invocations of connection.close()
    st_pos,         \* rows the cursor has handed out
    st_out,         \* what the generator has yielded, in order
    st_err,         \* the error raised inside the generator, if any
    st_end,         \* how the iteration ended for the consumer
    \* ---- lazy paginator: 2-lazy_paginate.py
    pg_rows,        \* the rows of user_data, in the store's order
    pg_page_size,   \* lazy_pagination's page_size
    pg_gen,         \* the generator: created, suspended at its yield, finished
    pg_offset,      \* lazy_pagination's local `offset`
    pg_requests,    \* how many times the consumer asked for the next page
    pg_fetches,     \* the calls of paginate_users, in order
    pg_out,         \* the pages the generator has yielded, in order
    pg_end,         \* how the iteration ended for the consumer
    \* ---- concurrent orchestrator: 3-concurrent.py
    ac_users,       \* the rows of the users table of users.db
    ac_fc,          \* where fetch_concurrently stands
    ac_fc_results,  \* what fetch_concurrently returned
    ac_fc_exc,      \* the exception fetch_concurrently raised
    ac_task,        \* per coroutine handed to gather: [pc, db, results, exc]
    ac_conns,       \* every connection aiosqlite.connect returned: [by, closes]
    ac_gather,      \* the future asyncio.gather returned
    \* ---- scoped query: 1-execute.py
    eq_pc,          \* where the caller's current `with ExecuteQuery(...)` stands
    eq_made,        \* an ExecuteQuery object has been constructed
    eq_connection,  \* ExecuteQuery.connection (0: None)
    eq_cursor,      \* ExecuteQuery.cursor (0: None; else the connection it is on)
    eq_results,     \* ExecuteQuery.results
    eq_exc,         \* how the with-body ended
    eq_conns,       \* every connection __enter__ opened: [closes, cursor_closes]
    eq_calls,       \* the finished with statements
    \* ---- transactional update: 2-transactional.py, update_user_email
    ue_conn,        \* the `conn` argument of the transactional wrapper (0: no call)
    ue_trace,       \* what was done on which connection, in order: [m, conn, open]
    \* ---- retried fetch: 3-retry_on_failure.py, fetch_users_with_retry
    fr_conn,        \* the `conn` argument of the retry wrapper (0: no call)
    fr_trace,       \* what was done on which connection, in order: [m, conn, open]
    \* ---- cached fetch: 4-cache_query.py, fetch_users_with_cache
    fc_conn,        \* the `conn` argument of the cache wrapper, args[0] (0: no call)
    fc_trace,       \* what was done on which connection, in order: [m, conn, open]
    \* ---- seeding: seed.py, insert_data
    sd_table,       \* the committed rows of user_data
    sd_csv,         \* the rows of the CSV file: [user_id, age], the name being the line
    sd_file,        \* whether the CSV file exists
    sd_pc,          \* where insert_data stands
    sd_pos,         \* CSV rows the loop has consumed
    sd_work,        \* user_data as the connection's open transaction sees it
    sd_inserted,    \* insert_data's local `rows_inserted`
    sd_executed,    \* INSERT statements executed in the run in progress
    sd_runs,        \* the finished runs of insert_data
    \* ---- rate limiting: chats/middleware.py, OffensiveLanguageMiddleware
    ml_clock,       \* what datetime.now().timestamp() returns at this moment
    ml_times,       \* OffensiveLanguageMiddleware.ip_request_times: ip -> timestamps
    ml_thread,      \* each worker thread: [pc, method, ip, current_time]
    ml_requests,    \* requests received so far
    ml_admitted,    \* per ip, the recorded timestamps of the POSTs forwarded
    ml_limited      \* the methods of the requests answered 429

scopeVars == <<conns, sc_pc, sc_conn, sc_exc, dc_made, dc_connection, sc_calls>>

txVars == <<tx_pc, tx_op, tx_ops, tx_exc, tx_result, tx_log, tx_calls>>

rtVars == <<rt_retries, rt_delay, rt_pc, rt_attempt, rt_last, rt_invoked,
            rt_events, rt_calls>>

chVars == <<query_cache, ch_pc, ch_args, ch_query, ch_result, ch_calls>>

stVars == <<st_kind, st_batch_size, st_rows, st_gen, st_conn, st_closes, st_pos,
            st_out, st_err, st_end>>

pgVars == <<pg_rows, pg_page_size, pg_gen, pg_offset, pg_requests, pg_fetches,
            pg_out, pg_end>>

acVars == <<ac_users, ac_fc, ac_fc_results, ac_fc_exc, ac_task, ac_conns, ac_gather>>

eqVars == <<eq_pc, eq_made, eq_connection, eq_cursor, eq_results, eq_exc,
            eq_conns, eq_calls>>

ueVars == <<ue_conn, ue_trace>>

frVars == <<fr_conn, fr_trace>>

fcVars == <<fc_conn, fc_trace>>

sdVars == <<sd_table, sd_csv, sd_file, sd_pc, sd_pos, sd_work, sd_inserted,
            sd_executed, sd_runs>>

mlVars == <<ml_clock, ml_times, ml_thread, ml_requests, ml_admitted, ml_limited>>

vars == <<scopeVars, txVars, rtVars, chVars, stVars, pgVars, acVars, eqVars, ueVars, frVars, fcVars, sdVars, mlVars>>

\* ========================================================================
\* Connection scope
\* ========================================================================

\* How the wrapped function can end: it returns, raises an Exception, or is
\* left by a BaseException (KeyboardInterrupt, SystemExit).
FuncOutcomes == {"return", "Exception", "BaseException"}

\* A with-body can moreover be left early by return / break / continue.
BodyOutcomes == FuncOutcomes \cup {"early"}

\* connection.close(): one more invocation of close on connection c.
conn_close(cs, c) == [cs EXCEPT ![c].closes = @ + 1]

\* The record of a finished scoped call: which scope, the connection it
\* opened (0: none), whether func / the with-body was invoked and how it
\* ended, how many times close() was invoked, and what reached the caller.
ScopeFinished(kind, conn, invoked, body, close_attempts, outcome) ==
    [kind |-> kind, conn |-> conn, invoked |-> invoked, body |-> body,
     close_attempts |-> close_attempts, outcome |-> outcome]

\* What leaves a with statement whose body ended as body and whose __exit__
\* returned suppress: a true value swallows an exception of the body, and
\* the statement after the with block runs next.
with_outcome(body, suppress) ==
    IF body \in {"Exception", "BaseException"} /\ suppress THEN "suppressed" ELSE body

\* An __exit__ that returns True.
exit_returns_True == TRUE

\* DatabaseConnection.__exit__: return False
DatabaseConnection_exit_returns == FALSE

\* ExecuteQuery.__exit__: return False
ExecuteQuery_exit_returns == FALSE

ScopeInit ==
    /\ conns = <<>>
    /\ sc_pc = "idle"
    /\ sc_conn = 0
    /\ sc_exc = "none"
    /\ dc_made = FALSE
    /\ dc_connection = 0
    /\ sc_calls = <<>>

\* A wrapper whose connect is inside the try: when it raises, the finally
\* clause runs conn.close() on a name that was never bound, and the
\* UnboundLocalError of that replaces the error of the connect.
with_db_connection_connect_in_try ==
    /\ sc_pc = "idle"
    /\ Len(sc_calls) < MaxCalls
    /\ \E ok \in BOOLEAN :
         IF ok
         THEN /\ conns' = Append(conns, [by |-> "decorator", closes |-> 0])
              /\ sc_conn' = Len(conns) + 1
              /\ sc_pc' = "func"
              /\ UNCHANGED sc_calls
         ELSE /\ sc_calls' = Append(sc_calls,
                     ScopeFinished("decorator", 0, FALSE, "none", 1, "UnboundLocalError"))
              /\ UNCHANGED <<conns, sc_conn, sc_pc>>
    /\ UNCHANGED <<sc_exc, dc_made, dc_connection>>

\* wrapper, line 25: conn = sqlite3.connect('users.db').  The connect is
\* outside the try: when it raises, the error leaves the wrapper at once.
with_db_connection_connect ==
    /\ sc_pc = "idle"
    /\ Len(sc_calls) < MaxCalls
    /\ \E ok \in BOOLEAN :
         IF ok
         THEN /\ conns' = Append(conns, [by |-> "decorator", closes |-> 0])
              /\ sc_conn' = Len(conns) + 1
              /\ sc_pc' = "func"
              /\ UNCHANGED sc_calls
         ELSE /\ sc_calls' = Append(sc_calls,
                     ScopeFinished("decorator", 0, FALSE, "none", 0, "connect_error"))
              /\ UNCHANGED <<conns, sc_conn, sc_pc>>
    /\ UNCHANGED <<sc_exc, dc_made, dc_connection>>

\* wrapper, lines 27-30: result = func(conn, ...); return result.
with_db_connection_func ==
    /\ sc_pc = "func"
    /\ \E out \in FuncOutcomes : sc_exc' = out
    /\ sc_pc' = "finally"
    /\ UNCHANGED <<conns, sc_conn, dc_made, dc_connection, sc_calls>>

\* A wrapper that closes only after func returned: no finally clause.
with_db_connection_finally_no_finally ==
    /\ sc_pc = "finally"
    /\ conns' = IF sc_exc = "return" THEN conn_close(conns, sc_conn) ELSE conns
    /\ sc_calls' = Append(sc_calls,
           ScopeFinished("decorator", sc_conn, TRUE, sc_exc,
                         IF sc_exc = "return" THEN 1 ELSE 0, sc_exc))
    /\ sc_pc' = "idle"
    /\ sc_conn' = 0
    /\ sc_exc' = "none"
    /\ UNCHANGED <<dc_made, dc_connection>>

\* wrapper, lines 31-33: finally: conn.close(), on every way out of the try;
\* then the return value or the exception reaches the caller.
with_db_connection_finally ==
    /\ sc_pc = "finally"
    /\ conns' = conn_close(conns, sc_conn)
    /\ sc_calls' = Append(sc_calls,
           ScopeFinished("decorator", sc_conn, TRUE, sc_exc, 1, sc_exc))
    /\ sc_pc' = "idle"
    /\ sc_conn' = 0
    /\ sc_exc' = "none"
    /\ UNCHANGED <<dc_made, dc_connection>>

\* DatabaseConnection.__init__: self.connection = None.
DatabaseConnection_init ==
    /\ sc_pc = "idle"
    /\ Len(sc_calls) < MaxCalls
    /\ ~dc_made \/ dc_connection # 0
    /\ dc_made' = TRUE
    /\ dc_connection' = 0
    /\ UNCHANGED <<conns, sc_pc, sc_conn, sc_exc, sc_calls>>

\* DatabaseConnection.__enter__: self.connection = sqlite3.connect(db_name).
\* When connect raises, the with statement runs neither the body nor __exit__,
\* and self.connection keeps what it held.
DatabaseConnection_enter ==
    /\ sc_pc = "idle"
    /\ dc_made
    /\ Len(sc_calls) < MaxCalls
    /\ \E ok \in BOOLEAN :
         IF ok
         THEN /\ conns' = Append(conns, [by |-> "context", closes |-> 0])
              /\ dc_connection' = Len(conns) + 1
              /\ sc_pc' = "body"
              /\ UNCHANGED sc_calls
         ELSE /\ sc_calls' = Append(sc_calls,
                     ScopeFinished("context", 0, FALSE, "none", 0, "connect_error"))
              /\ UNCHANGED <<conns, dc_connection, sc_pc>>
    /\ UNCHANGED <<sc_conn, sc_exc, dc_made>>

\* The body of `with DatabaseConnection(...) as conn:`.
DatabaseConnection_body ==
    /\ sc_pc = "body"
    /\ \E out \in BodyOutcomes : sc_exc' = out
    /\ sc_pc' = "exit"
    /\ UNCHANGED <<conns, sc_conn, dc_made, dc_connection, sc_calls>>

\* DatabaseConnection.__exit__: if self.connection: self.connection.close();
\* return False, so an exception of the body goes on to the caller.  A
\* sqlite3.Connection is always truthy; None is not.
DatabaseConnection_exit ==
    /\ sc_pc = "exit"
    /\ conns' = IF dc_connection # 0 THEN conn_close(conns, dc_connection) ELSE conns
    /\ sc_calls' = Append(sc_calls,
           ScopeFinished("context", dc_connection, TRUE, sc_exc,
                         IF dc_connection # 0 THEN 1 ELSE 0,
                         with_outcome(sc_exc, DatabaseConnection_exit_returns)))
    /\ sc_pc' = "idle"
    /\ sc_exc' = "none"
    /\ UNCHANGED <<sc_conn, dc_made, dc_connection>>

\* ------------------------------------------------------------------ C1

\* The connection the call in progress holds (0: none).
ScopeActive ==
    CASE sc_pc \in {"func", "finally"} -> sc_conn
      [] sc_pc \in {"body", "exit"} -> dc_connection
      [] OTHER -> 0

\* C1: every connection that was opened is closed exactly once by the scope
\* that opened it: close has not been invoked while the wrapped function or
\* the with-body runs, and has been invoked exactly once as soon as the call
\* is over, however the function or the body ended (return, exception,
\* BaseException, early exit).
C1_CloseExactlyOnce ==
    /\ \A c \in 1..Len(conns) :
         conns[c].closes = (IF c = ScopeActive THEN 0 ELSE 1)
    /\ \A i \in 1..Len(sc_calls) :
         sc_calls[i].outcome # "connect_error" =>
            /\ sc_calls[i].conn \in 1..Len(conns)
            /\ conns[sc_calls[i].conn].closes = 1

\* Both scopes have finished a call whose body raised, and the decorator one
\* whose function returned; each of their connections was closed once.
C1_Witness ==
    /\ \E i \in 1..Len(sc_calls) :
         /\ sc_calls[i].kind = "decorator"
         /\ sc_calls[i].outcome = "Exception"
         /\ conns[sc_calls[i].conn].closes = 1
    /\ \E i \in 1..Len(sc_calls) :
         /\ sc_calls[i].kind = "context"
         /\ sc_calls[i].outcome \in {"Exception", "early"}
         /\ conns[sc_calls[i].conn].closes = 1
    /\ \E i \in 1..Len(sc_calls) :
         /\ sc_calls[i].outcome = "return"
         /\ conns[sc_calls[i].conn].closes = 1

\* ========================================================================
\* Transaction guard
\* ========================================================================

\* The values a wrapped function can return.
Results == {"rows_a", "rows_b"}

TxInit ==
    /\ tx_pc = "idle"
    /\ tx_op = "none"
    /\ tx_ops = <<>>
    /\ tx_exc = "none"
    /\ tx_result = "none"
    /\ tx_log = <<>>
    /\ tx_calls = <<>>

\* The record of a finished call of the transactional wrapper: how func ended,
\* the commit / rollback invocations in order, and what reached the caller.
TxFinished(ops, log, outcome, value) ==
    [op |-> tx_op, ops |-> ops, log |-> log, outcome |-> outcome, value |-> value]

\* wrapper, lines 51-53: try: result = func(conn, ...).  A BaseException that
\* is not an Exception is not caught by `except Exception` and leaves the
\* wrapper at once.
transactional_func ==
    /\ tx_pc = "idle"
    /\ Len(tx_calls) < MaxCalls
    /\ \E out \in FuncOutcomes :
         CASE out = "return" ->
                /\ \E r \in Results : tx_result' = r
                /\ tx_op' = "return"
                /\ tx_pc' = "commit"
                /\ UNCHANGED <<tx_exc, tx_calls>>
           [] out = "Exception" ->
                /\ tx_op' = "Exception"
                /\ tx_exc' = "func_error"
                /\ tx_pc' = "except"
                /\ UNCHANGED <<tx_result, tx_calls>>
           [] OTHER ->
                /\ tx_calls' = Append(tx_calls,
                       [op |-> "BaseException", ops |-> <<>>, log |-> <<>>,
                        outcome |-> "raise", value |-> "func_interrupt"])
                /\ UNCHANGED <<tx_op, tx_exc, tx_result, tx_pc>>
    /\ UNCHANGED <<tx_ops, tx_log>>

\* A wrapper whose commit is outside the try: a failing commit is not
\* followed by a rollback.
transactional_commit_outside_try ==
    /\ tx_pc = "commit"
    /\ \E ok \in BOOLEAN :
         /\ tx_calls' = Append(tx_calls,
                IF ok
                THEN TxFinished(Append(tx_ops, "commit"),
                                Append(tx_log, "committed"), "return", tx_result)
                ELSE TxFinished(Append(tx_ops, "commit"), tx_log,
                                "raise", "commit_error"))
         /\ tx_pc' = "idle"
         /\ tx_op' = "none"
         /\ tx_ops' = <<>>
         /\ tx_log' = <<>>
         /\ tx_result' = "none"
         /\ UNCHANGED tx_exc

\* wrapper, lines 55-59: conn.commit(); print(...); return result.  The commit
\* is inside the try: when it raises an Exception the except clause runs.
transactional_commit ==
    /\ tx_pc = "commit"
    /\ \E ok \in BOOLEAN :
         IF ok
         THEN /\ tx_calls' = Append(tx_calls,
                     TxFinished(Append(tx_ops, "commit"),
                                Append(tx_log, "committed"), "return", tx_result))
              /\ tx_pc' = "idle"
              /\ tx_op' = "none"
              /\ tx_ops' = <<>>
              /\ tx_log' = <<>>
              /\ tx_result' = "none"
              /\ UNCHANGED tx_exc
         ELSE /\ tx_ops' = Append(tx_ops, "commit")
              /\ tx_exc' = "commit_error"
              /\ tx_pc' = "except"
              /\ UNCHANGED <<tx_op, tx_log, tx_result, tx_calls>>

\* wrapper, lines 61-65: except Exception as e: conn.rollback(); print(...);
\* raise.  The bare raise re-raises the exception being handled; when the
\* rollback itself raises, that exception reaches the caller instead.
transactional_except ==
    /\ tx_pc = "except"
    /\ \E ok \in BOOLEAN :
         tx_calls' = Append(tx_calls,
             IF ok
             THEN TxFinished(Append(tx_ops, "rollback"),
                             Append(tx_log, "rolled back"), "raise", tx_exc)
             ELSE TxFinished(Append(tx_ops, "rollback"), tx_log,
                             "raise", "rollback_error"))
    /\ tx_pc' = "idle"
    /\ tx_op' = "none"
    /\ tx_ops' = <<>>
    /\ tx_exc' = "none"
    /\ tx_log' = <<>>
    /\ tx_result' = "none"

\* The number of invocations of method m of the connection in a call.
Invocations(call, m) == Cardinality({i \in 1..Len(call.ops) : call.ops[i] = m})

\* ------------------------------------------------------------------ C2

\* C2 as stated: in every call of the transactional wrapper exactly one of
\* conn.commit() and conn.rollback() is invoked, whatever the outcome of func
\* (it returns, it raises an Exception) and of the commit.
C2_ExactlyOneOfCommitRollback ==
    \A i \in 1..Len(tx_calls) :
       tx_calls[i].op \in {"return", "Exception"} =>
       Invocations(tx_calls[i], "commit") + Invocations(tx_calls[i], "rollback") = 1

\* C2 amended: commit is invoked, once, exactly when func returned; rollback
\* is invoked, once, exactly when func or the commit raised an Exception.  So
\* exactly one of the two is invoked when func returns and the commit
\* succeeds (commit) or func raises an Exception (rollback); a commit that
\* raises is followed by a rollback (both, in that order); a BaseException
\* out of func passes with neither.
C2_CommitXorRollbackUnlessCommitFails ==
    \A i \in 1..Len(tx_calls) :
       LET call == tx_calls[i] IN
       CASE call.op = "return" /\ call.outcome = "return" ->
                call.ops = <<"commit">>
         [] call.op = "return" /\ call.outcome = "raise" ->
                call.ops = <<"commit", "rollback">>
         [] call.op = "Exception" ->
                call.ops = <<"rollback">>
         [] OTHER ->
                call.op = "BaseException" /\ call.ops = <<>>

\* Calls of each kind have finished: a committed one, one rolled back after
\* func raised, and one whose commit raised.
C2_Witness ==
    /\ \E i \in 1..Len(tx_calls) :
         tx_calls[i].op = "return" /\ tx_calls[i].outcome = "return"
    /\ \E i \in 1..Len(tx_calls) :
         tx_calls[i].op = "Exception" /\ tx_calls[i].ops = <<"rollback">>
    /\ \E i \in 1..Len(tx_calls) :
         tx_calls[i].op = "return" /\ tx_calls[i].value = "commit_error"

\* ------------------------------------------------------------------ C15

\* C15: a call whose func returned and whose commit succeeded returns func's
\* result, after the commit; a call whose func raised an Exception invokes
\* rollback and then raises that same exception to its caller.
C15_ResultAfterCommitSameErrorAfterRollback ==
    \A i \in 1..Len(tx_calls) :
       LET call == tx_calls[i] IN
       /\ (call.op = "return" /\ call.outcome = "return") =>
             /\ call.ops = <<"commit">>
             /\ call.value \in Results
       /\ call.op = "Exception" =>
             /\ call.ops = <<"rollback">>
             /\ call.outcome = "raise"
             /\ call.value = "func_error"

\* ========================================================================
\* Retry policy
\* ========================================================================

\* The `delay` values of the source: the default and the one
\* fetch_users_with_retry is decorated with.
Delays == {1, 2}

RtInit ==
    /\ rt_retries \in -1..MaxRetries
    /\ rt_delay \in Delays
    /\ rt_pc = "idle"
    /\ rt_attempt = 0
    /\ rt_last = 0
    /\ rt_invoked = 0
    /\ rt_events = <<>>
    /\ rt_calls = <<>>

Event(e, n) == [e |-> e, n |-> n]

\* The n-th invocation of func in a call, and how it ended.
Invoke(n, out) == [e |-> "invoke", n |-> n, out |-> out]

\* The record of a finished call of the retry wrapper.  `exc` is the
\* invocation whose exception was raised to the caller (0: none of them).
RtFinished(events, invoked, outcome, value, exc) ==
    [events |-> events, invoked |-> invoked, outcome |-> outcome,
     value |-> value, exc |-> exc]

\* wrapper, lines 53-54: attempt = 0; last_exception = None.
retry_on_failure_call ==
    /\ rt_pc = "idle"
    /\ Len(rt_calls) < MaxRetryCalls
    /\ rt_pc' = "while"
    /\ rt_attempt' = 0
    /\ rt_last' = 0
    /\ rt_invoked' = 0
    /\ rt_events' = <<>>
    /\ UNCHANGED <<rt_retries, rt_delay, rt_calls>>

\* A loop that stops one attempt short.
retry_while_one_short == rt_attempt < rt_retries - 1

\* A loop that makes one attempt too many.
retry_while_one_more == rt_attempt <= rt_retries

\* wrapper, line 56: while attempt < retries.
retry_while == rt_attempt < rt_retries

\* A failure line printed before the attempt is counted.
print_failed_before_increment(attempt) == Event("print_failed", attempt - 1)

\* wrapper, line 67: print(f"Attempt {attempt} failed: {e}"), attempt
\* already incremented on line 65.
print_failed(attempt) == Event("print_failed", attempt)

\* A wrapper that sleeps after every failed attempt.
retry_sleeps_after_every_failure(attempt) == TRUE

\* wrapper, line 69: if attempt < retries (sleep), else report that all
\* attempts failed.
retry_sleeps(attempt) == attempt < rt_retries

\* wrapper, lines 57-73: one turn of the loop.  func is invoked; when it
\* returns, the wrapper returns its result (after a success line if an
\* earlier attempt failed); when it raises an Exception, the attempt is
\* counted, the exception kept and reported, and the wrapper goes on to sleep
\* if attempts are left.  A BaseException is not caught.
retry_on_failure_attempt ==
    /\ rt_pc = "while"
    /\ retry_while
    /\ rt_invoked' = rt_invoked + 1
    /\ \E out \in FuncOutcomes :
         LET invoked == Append(rt_events, Invoke(rt_invoked + 1, out)) IN
         CASE out = "return" ->
                /\ \E r \in Results :
                     rt_calls' = Append(rt_calls,
                        RtFinished(IF rt_attempt > 0
                                   THEN Append(invoked, Event("print_success", rt_attempt + 1))
                                   ELSE invoked,
                                   rt_invoked + 1, "return", r, 0))
                /\ rt_pc' = "idle"
                /\ rt_events' = <<>>
                /\ UNCHANGED <<rt_attempt, rt_last>>
           [] out = "Exception" ->
                /\ rt_attempt' = rt_attempt + 1
                /\ rt_last' = rt_invoked + 1
                /\ IF retry_sleeps(rt_attempt + 1)
                   THEN /\ rt_events' = invoked \o
                              <<print_failed(rt_attempt + 1),
                                Event("print_retrying", rt_delay)>>
                        /\ rt_pc' = "sleep"
                   ELSE /\ rt_events' = invoked \o
                              <<print_failed(rt_attempt + 1),
                                Event("print_all_failed", rt_retries)>>
                        /\ rt_pc' = "while"
                /\ UNCHANGED rt_calls
           [] OTHER ->
                /\ rt_calls' = Append(rt_calls,
                       RtFinished(invoked, rt_invoked + 1, "raise_interrupt", "none", 0))
                /\ rt_pc' = "idle"
                /\ rt_events' = <<>>
                /\ UNCHANGED <<rt_attempt, rt_last>>
    /\ UNCHANGED <<rt_retries, rt_delay>>

\* wrapper, line 71: time.sleep(delay).
retry_on_failure_sleep ==
    /\ rt_pc = "sleep"
    /\ rt_events' = Append(rt_events, Event("sleep", rt_delay))
    /\ rt_pc' = "while"
    /\ UNCHANGED <<rt_retries, rt_delay, rt_attempt, rt_last, rt_invoked, rt_calls>>

\* A wrapper that raises only when it holds an exception, and otherwise
\* falls off its end and returns None.
retry_on_failure_raise_if_any ==
    /\ rt_pc = "while"
    /\ ~retry_while
    /\ rt_calls' = Append(rt_calls,
           IF rt_last = 0
           THEN RtFinished(rt_events, rt_invoked, "return", "none", 0)
           ELSE RtFinished(rt_events, rt_invoked, "raise_last", "none", rt_last))
    /\ rt_pc' = "idle"
    /\ rt_events' = <<>>
    /\ UNCHANGED <<rt_retries, rt_delay, rt_attempt, rt_last, rt_invoked>>

\* wrapper, line 76: raise last_exception, once the loop is left.  With
\* last_exception still None, `raise None` is itself a TypeError.
retry_on_failure_raise ==
    /\ rt_pc = "while"
    /\ ~retry_while
    /\ rt_calls' = Append(rt_calls,
           IF rt_last = 0
           THEN RtFinished(rt_events, rt_invoked, "raise_TypeError", "none", 0)
           ELSE RtFinished(rt_events, rt_invoked, "raise_last", "none", rt_last))
    /\ rt_pc' = "idle"
    /\ rt_events' = <<>>
    /\ UNCHANGED <<rt_retries, rt_delay, rt_attempt, rt_last, rt_invoked>>

\* The invocations of func in a call that ended in an Exception: each one is
\* followed by its failure line.
Failures(call) ==
    Cardinality({i \in 1..Len(call.events) : call.events[i].e = "print_failed"})

\* ------------------------------------------------------------------ C3

\* C3: with retries = N >= 1, a call in which every invocation of the
\* operation failed made exactly N invocations, and the error raised to the
\* caller is the one the N-th invocation raised.
C3_RetryBound ==
    \A i \in 1..Len(rt_calls) :
       LET call == rt_calls[i] IN
       (rt_retries >= 1 /\ Failures(call) = call.invoked) =>
          /\ call.invoked = rt_retries
          /\ call.outcome = "raise_last"
          /\ call.exc = rt_retries

\* A call with retries = 3 has failed three times and raised the third error.
C3_Witness ==
    \E i \in 1..Len(rt_calls) :
       /\ rt_retries = 3
       /\ Failures(rt_calls[i]) = 3
       /\ rt_calls[i].invoked = 3
       /\ rt_calls[i].outcome = "raise_last"
       /\ rt_calls[i].exc = 3

\* ------------------------------------------------------------------ C4

\* C4: with retries = N, a call whose operation failed k < N times and then
\* succeeded returns the result of invocation k+1, raises nothing, and made
\* exactly k+1 invocations: the successful one is the last.
C4_RetrySuccess ==
    /\ \A i \in 1..Len(rt_calls) :
         LET call == rt_calls[i] IN
         call.outcome = "return" =>
            /\ Failures(call) < rt_retries
            /\ call.invoked = Failures(call) + 1
            /\ call.value \in Results
            /\ call.events[Len(call.events)].e \in {"invoke", "print_success"}
            /\ \A j \in 1..Len(call.events) :
                 call.events[j].e = "invoke" /\ call.events[j].n = call.invoked =>
                    \A l \in (j+1)..Len(call.events) : call.events[l].e = "print_success"
    \* failures left over: while less than N invocations failed and none has
    \* succeeded, the wrapper has not given up
    /\ \A i \in 1..Len(rt_calls) :
         LET call == rt_calls[i] IN
         (call.outcome \in {"raise_last", "raise_TypeError"} /\ rt_retries >= 1) =>
            Failures(call) = rt_retries

\* A call with retries = 3 failed twice and returned on the third invocation.
C4_Witness ==
    \E i \in 1..Len(rt_calls) :
       /\ rt_retries = 3
       /\ rt_calls[i].outcome = "return"
       /\ Failures(rt_calls[i]) = 2
       /\ rt_calls[i].invoked = 3

\* ------------------------------------------------------------------ C21

\* The events of a call that satisfy a test, in order.
EventsOf(call, Test(_)) == SelectSeq(call.events, Test)

IsFailedInvoke(ev) == ev.e = "invoke" /\ ev.out = "Exception"

IsFailedLine(ev) == ev.e = "print_failed"

IsSuccessLine(ev) == ev.e = "print_success"

IsReportLine(ev) == ev.e \in {"print_failed", "print_success"}

IsSleep(ev) == ev.e = "sleep"

\* The number of invocations of func in a call that raised an Exception.
FailedAttempts(call) == Len(EventsOf(call, IsFailedInvoke))

\* C21: in every call of the retry wrapper the k-th invocation that raised
\* an Exception is followed at once by the line 'Attempt k failed', and
\* these are all the failure lines there are; a call that returns after at
\* least one failure prints exactly one success line, as the last thing it
\* does, and a call that returns at its first attempt prints none; so a call
\* with retries = 3 whose func failed twice and then returned has logged
\* failure line 1, failure line 2, one success line, and returns the result.
C21_OneFailureLinePerFailedAttempt ==
    \A i \in 1..Len(rt_calls) :
       LET call == rt_calls[i]
           f == FailedAttempts(call)
       IN /\ EventsOf(call, IsFailedLine) = [k \in 1..f |-> Event("print_failed", k)]
          /\ \A j \in 1..Len(call.events) :
               IsFailedInvoke(call.events[j]) =>
                  /\ j < Len(call.events)
                  /\ call.events[j + 1] = Event("print_failed", call.events[j].n)
          /\ call.outcome = "return" =>
               /\ EventsOf(call, IsSuccessLine) =
                     (IF f > 0 THEN <<Event("print_success", f + 1)>> ELSE <<>>)
               /\ f > 0 => call.events[Len(call.events)] = Event("print_success", f + 1)
               /\ call.value \in Results
          /\ call.outcome # "return" => EventsOf(call, IsSuccessLine) = <<>>
          /\ (rt_retries = 3 /\ f = 2 /\ call.outcome = "return") =>
               EventsOf(call, IsReportLine) =
                  <<Event("print_failed", 1), Event("print_failed", 2),
                    Event("print_success", 3)>>

\* A call with retries = 3 whose func failed twice and then returned.
C21_Witness ==
    \E i \in 1..Len(rt_calls) :
       /\ rt_retries = 3
       /\ rt_calls[i].outcome = "return"
       /\ FailedAttempts(rt_calls[i]) = 2
       /\ Len(EventsOf(rt_calls[i], IsReportLine)) = 3

\* ------------------------------------------------------------------ C22

\* C22: with retries = N >= 1, a call in which f invocations failed has
\* slept min(f, N - 1) times, each time for `delay`: every sleep comes after
\* the lines of a failed attempt and right before the next invocation, and
\* nothing follows a returning invocation or the N-th failure but print
\* lines.
C22_SleepsBetweenAttemptsOnly ==
    \A i \in 1..Len(rt_calls) :
       LET call == rt_calls[i]
           f == FailedAttempts(call)
       IN rt_retries >= 1 =>
          /\ Len(EventsOf(call, IsSleep)) = Min(f, rt_retries - 1)
          /\ \A j \in 1..Len(call.events) :
               IsSleep(call.events[j]) =>
                  /\ call.events[j].n = rt_delay
                  /\ j >= 4 /\ j < Len(call.events)
                  /\ IsFailedInvoke(call.events[j - 3])
                  /\ call.events[j - 1].e = "print_retrying"
                  /\ call.events[j + 1].e = "invoke"
                  /\ call.events[j + 1].n = call.events[j - 3].n + 1
          /\ \A j \in 1..Len(call.events) :
               (call.events[j].e = "invoke" /\ call.events[j].n > 1) =>
                  j > 1 /\ IsSleep(call.events[j - 1])

\* A call with retries = 3 in which all three invocations failed has slept
\* twice.
C22_Witness ==
    \E i \in 1..Len(rt_calls) :
       /\ rt_retries = 3
       /\ FailedAttempts(rt_calls[i]) = 3
       /\ Len(EventsOf(rt_calls[i], IsSleep)) = 2

\* ------------------------------------------------------------------ C27

\* C27: with retries <= 0 the wrapper never invokes func and never returns:
\* every call ends at `raise last_exception` with last_exception still None,
\* which raises a TypeError, without any failure having been seen or
\* reported.
C27_NoAttemptsRaisesWithoutFailure ==
    rt_retries <= 0 =>
        /\ rt_invoked = 0
        /\ rt_last = 0
        /\ rt_events = <<>>
        /\ \A i \in 1..Len(rt_calls) :
             /\ rt_calls[i].invoked = 0
             /\ rt_calls[i].events = <<>>
             /\ rt_calls[i].outcome = "raise_TypeError"
             /\ rt_calls[i].exc = 0

\* Calls with retries = 0 have ended.
C27_Witness ==
    /\ rt_retries = 0
    /\ Len(rt_calls) = 2

\* ========================================================================
\* Result cache
\* ========================================================================

\* The callers of the cached function; in sequential use only caller 1 calls.
Threads == {1, 2}

\* Query texts, the empty one included.
Queries == {"SELECT_a", "SELECT_b", ""}

\* Python's None as a cache key.
None == "<None>"

\* A call passes the query by keyword, f(query=q), or by position, f(q);
\* with_db_connection puts conn in front, so that the cache wrapper sees
\* args = (conn,), kwargs = {query: q}, or args = (conn, q), kwargs = {}.
CacheArgs == [by : {"keyword", "positional"}, text : Queries]

NoArgs == [by |-> "none", text |-> ""]

\* wrapper, line 57:
\*   query = kwargs.get('query') or (args[1] if len(args) > 1 else None)
\* An empty text given by keyword is falsy, and the right operand is taken.
cache_key(a) ==
    LET kw == IF a.by = "keyword" THEN a.text ELSE None
        kw_truthy == kw # None /\ kw # ""
        nargs == IF a.by = "positional" THEN 2 ELSE 1
    IN  IF kw_truthy THEN kw
        ELSE IF nargs > 1 THEN a.text ELSE None

ChInit ==
    /\ query_cache = <<>>
    /\ ch_pc = [t \in Threads |-> "idle"]
    /\ ch_args = [t \in Threads |-> NoArgs]
    /\ ch_query = [t \in Threads |-> None]
    /\ ch_result = [t \in Threads |-> "none"]
    /\ ch_calls = <<>>

\* Calls begun so far, finished or not.
ChBegun == Len(ch_calls) + Cardinality({t \in Threads : ch_pc[t] # "idle"})

ChFinished(t, invoked, outcome, value) ==
    [by |-> ch_args[t].by, text |-> ch_args[t].text, caller |-> t,
     invoked |-> invoked, outcome |-> outcome, value |-> value]

\* A wrapper that holds a lock from the cache check to the insertion: no
\* caller checks while another is between its check and its store.
cache_query_check_locked(t) ==
    /\ ch_pc[t] = "idle"
    /\ \A u \in Threads : ch_pc[u] = "idle"
    /\ ChBegun < MaxCacheCalls
    /\ \E a \in CacheArgs :
         LET query == cache_key(a) IN
         IF query \in DOMAIN query_cache
         THEN /\ ch_calls' = Append(ch_calls,
                     [by |-> a.by, text |-> a.text, caller |-> t,
                      invoked |-> FALSE, outcome |-> "return",
                      value |-> query_cache[query]])
              /\ UNCHANGED <<ch_pc, ch_args, ch_query>>
         ELSE /\ ch_pc' = [ch_pc EXCEPT ![t] = "func"]
              /\ ch_args' = [ch_args EXCEPT ![t] = a]
              /\ ch_query' = [ch_query EXCEPT ![t] = query]
              /\ UNCHANGED ch_calls
    /\ UNCHANGED <<query_cache, ch_result>>

\* wrapper, lines 57-65: the key is taken from the arguments; a key that is in
\* query_cache is answered from it, without func; otherwise func is called.
cache_query_check(t) ==
    /\ ch_pc[t] = "idle"
    /\ ChBegun < MaxCacheCalls
    /\ \E a \in CacheArgs :
         LET query == cache_key(a) IN
         IF query \in DOMAIN query_cache
         THEN /\ ch_calls' = Append(ch_calls,
                     [by |-> a.by, text |-> a.text, caller |-> t,
                      invoked |-> FALSE, outcome |-> "return",
                      value |-> query_cache[query]])
              /\ UNCHANGED <<ch_pc, ch_args, ch_query>>
         ELSE /\ ch_pc' = [ch_pc EXCEPT ![t] = "func"]
              /\ ch_args' = [ch_args EXCEPT ![t] = a]
              /\ ch_query' = [ch_query EXCEPT ![t] = query]
              /\ UNCHANGED ch_calls
    /\ UNCHANGED <<query_cache, ch_result>>

\* wrapper, line 66: result = func(*args, **kwargs).  An exception of func
\* leaves the wrapper; nothing is stored.
cache_query_func(t) ==
    /\ ch_pc[t] = "func"
    /\ \E out \in FuncOutcomes :
         IF out = "return"
         THEN /\ \E r \in Results : ch_result' = [ch_result EXCEPT ![t] = r]
              /\ ch_pc' = [ch_pc EXCEPT ![t] = "store"]
              /\ UNCHANGED <<ch_args, ch_query, ch_calls>>
         ELSE /\ ch_calls' = Append(ch_calls, ChFinished(t, TRUE, "raise", out))
              /\ ch_pc' = [ch_pc EXCEPT ![t] = "idle"]
              /\ ch_args' = [ch_args EXCEPT ![t] = NoArgs]
              /\ ch_query' = [ch_query EXCEPT ![t] = None]
              /\ UNCHANGED ch_result
    /\ UNCHANGED query_cache

\* d[k] = v on a dictionary.
dict_set(d, k, v) == [x \in DOMAIN d \cup {k} |-> IF x = k THEN v ELSE d[x]]

\* A wrapper whose insert replaces the whole cache: query_cache = {query:
\* result} drops every other key.
cache_query_store_evicting(t) ==
    /\ ch_pc[t] = "store"
    /\ query_cache' = [x \in {ch_query[t]} |-> ch_result[t]]
    /\ ch_calls' = Append(ch_calls, ChFinished(t, TRUE, "return", ch_result[t]))
    /\ ch_pc' = [ch_pc EXCEPT ![t] = "idle"]
    /\ ch_args' = [ch_args EXCEPT ![t] = NoArgs]
    /\ ch_query' = [ch_query EXCEPT ![t] = None]
    /\ ch_result' = [ch_result EXCEPT ![t] = "none"]

\* wrapper, lines 69-71: query_cache[query] = result; return result.
cache_query_store(t) ==
    /\ ch_pc[t] = "store"
    /\ query_cache' = dict_set(query_cache, ch_query[t], ch_result[t])
    /\ ch_calls' = Append(ch_calls, ChFinished(t, TRUE, "return", ch_result[t]))
    /\ ch_pc' = [ch_pc EXCEPT ![t] = "idle"]
    /\ ch_args' = [ch_args EXCEPT ![t] = NoArgs]
    /\ ch_query' = [ch_query EXCEPT ![t] = None]
    /\ ch_result' = [ch_result EXCEPT ![t] = "none"]

\* ------------------------------------------------------------------ C5

\* C5 as stated: of two calls with the same query text, one after the other,
\* the first returning a result, the second does not invoke the underlying
\* operation and returns the first one's result.
C5_SameTextInvokesOnce ==
    \A i, j \in 1..Len(ch_calls) :
       (/\ i < j
        /\ ch_calls[i].text = ch_calls[j].text
        /\ ch_calls[i].outcome = "return") =>
          /\ ~ch_calls[j].invoked
          /\ ch_calls[j].outcome = "return"
          /\ ch_calls[j].value = ch_calls[i].value

\* ------------------------------------------------------------------ C6

\* C6: no guard spans check, compute and insert: a caller's check is never
\* held back by another caller that is between its own check and its insert,
\* so two callers can both miss on the same cold key and both invoke the
\* operation.
C6_NoMutualExclusion ==
    \A t \in Threads :
       (ch_pc[t] = "idle" /\ ChBegun < MaxCacheCalls) => ENABLED cache_query_check(t)

\* Both callers have missed on the same key and both have invoked the
\* operation for it: each holds a result to insert.
C6_Witness ==
    /\ ch_pc[1] = "store"
    /\ ch_pc[2] = "store"
    /\ ch_query[1] = ch_query[2]
    /\ ch_query[1] \notin DOMAIN query_cache

\* ------------------------------------------------------------------ C20

\* C20: no step removes a key from query_cache; a step changes query_cache
\* only by setting the key of a caller that holds the result its func
\* returned to that result; and a step in which a call ends with an
\* exception of func leaves query_cache as it was.
C20_CacheGrowsOnlyAfterSuccess ==
    [][/\ DOMAIN query_cache \subseteq DOMAIN query_cache'
       /\ \A k \in DOMAIN query_cache' :
            (k \notin DOMAIN query_cache \/ query_cache'[k] # query_cache[k]) =>
               \E t \in Threads :
                  /\ ch_pc[t] = "store"
                  /\ ch_query[t] = k
                  /\ ch_result[t] \in Results
                  /\ query_cache'[k] = ch_result[t]
       /\ (/\ Len(ch_calls') = Len(ch_calls) + 1
           /\ ch_calls'[Len(ch_calls')].outcome = "raise") =>
              query_cache' = query_cache]_vars

\* A call has stored its result, and a later call for another key has
\* ended with an exception of func: the cache holds the first key alone.
C20_Witness ==
    /\ Len(ch_calls) = 2
    /\ ch_calls[1].outcome = "return" /\ ch_calls[1].invoked
    /\ ch_calls[2].outcome = "raise"
    /\ Cardinality(DOMAIN query_cache) = 1
    /\ \E k \in DOMAIN query_cache : query_cache[k] = ch_calls[1].value

\* ========================================================================
\* Streaming generators
\* ========================================================================

\* The rows user_data can hold: user_id is the primary key.
UserRow(u) == [user_id |-> u, age |-> 20 + 10 * (u % 2)]

\* The result sets of SELECT * FROM user_data: the rows of a table of up to
\* MaxRows users, each once, in whatever order the store returns them.
ResultSets ==
    {rs \in UNION {[1..n -> {UserRow(u) : u \in 1..MaxRows}] : n \in 0..MaxRows} :
        \A i, j \in DOMAIN rs : i # j => rs[i] # rs[j]}

\* A row as a RealDictCursor hands it out, and dict(row) of it.
RealDictRow(r) == [cls |-> "RealDictRow", items |-> r]

dict_of(row) == row.items

\* A row of SELECT age as the default cursor hands it out: a tuple.
AgeTuple(r) == <<r.age>>

\* cursor.fetchmany(size) after pos rows were handed out: the next rows, at
\* most size of them.
fetchmany(rows, pos, size) == SubSeq(rows, pos + 1, Min(pos + size, Len(rows)))

StInit ==
    /\ st_kind \in {"stream_users", "stream_users_in_batches", "stream_user_ages"}
    /\ st_batch_size \in (IF st_kind = "stream_users_in_batches" THEN 1..MaxBatch ELSE {0})
    /\ st_rows \in ResultSets
    /\ st_gen = "created"
    /\ st_conn = "none"
    /\ st_closes = 0
    /\ st_pos = 0
    /\ st_out = <<>>
    /\ st_err = "none"
    /\ st_end = "none"

\* What can go wrong when the generator is resumed: the connect and the
\* execute run on the first resumption only, a fetch on every one.
StEvents == IF st_gen = "created"
            THEN {"ok", "connect_error", "execute_error", "fetch_error"}
            ELSE {"ok", "fetch_error"}

\* A connection the generator leaves without calling close(): it stays open,
\* unless the runtime finalizes the unreferenced connection object, which the
\* language does not promise.
Abandoned == {"open", "finalized"}

\* except psycopg2.Error / except Exception: the error is printed and the
\* generator returns, which the consumer sees as the end of the iteration.
\* The close() calls at the end of the try block are skipped.
gen_except(err, conn) ==
    /\ st_err' = err
    /\ st_conn' = conn
    /\ st_gen' = "finished"
    /\ st_end' = "StopIteration"
    /\ UNCHANGED <<st_closes, st_pos, st_out>>

\* yield item: the generator is suspended with its connection open.
gen_yield(item, n) ==
    /\ st_out' = Append(st_out, item)
    /\ st_pos' = st_pos + n
    /\ st_gen' = "suspended"
    /\ st_conn' = "open"
    /\ UNCHANGED <<st_closes, st_err, st_end>>

\* The loop is over: cursor.close(); connection.close(); the generator returns.
gen_return ==
    /\ st_conn' = "closed"
    /\ st_closes' = st_closes + 1
    /\ st_gen' = "finished"
    /\ st_end' = "StopIteration"
    /\ UNCHANGED <<st_pos, st_out, st_err>>

\* The try block the three generators share, from where the generator stands
\* to its next yield or its return.
gen_resume(more, item, n) ==
    /\ st_gen \in {"created", "suspended"}
    /\ \E ev \in StEvents :
         CASE ev = "connect_error" -> gen_except("connect", "none")
           [] ev = "execute_error" -> \E c \in Abandoned : gen_except("execute", c)
           [] ev = "fetch_error" -> \E c \in Abandoned : gen_except("fetch", c)
           [] OTHER -> IF more THEN gen_yield(item, n) ELSE gen_return
    /\ UNCHANGED <<st_kind, st_batch_size, st_rows>>

\* A generator that yields the rows from the last to the first.
stream_users_item_reversed(rows, pos) == dict_of(RealDictRow(rows[Len(rows) - pos]))

\* stream_users, lines 38-39: for row in cursor: yield dict(row).
stream_users_item(rows, pos) == dict_of(RealDictRow(rows[pos + 1]))

\* next() on stream_users(): lines 22-48.
stream_users_next ==
    /\ st_kind = "stream_users"
    /\ gen_resume(st_pos < Len(st_rows), stream_users_item(st_rows, st_pos), 1)

\* A loop that stops at the first batch shorter than batch_size.
batch_done_when_short(batch) == Len(batch) < st_batch_size

\* stream_users_in_batches, lines 42-43: if not batch: break.
batch_done(batch) == batch = <<>>

\* stream_users_in_batches, line 44: yield [dict(row) for row in batch].
batch_item(batch) == [i \in DOMAIN batch |-> dict_of(RealDictRow(batch[i]))]

\* next() on stream_users_in_batches(batch_size): lines 25-53.
stream_users_in_batches_next ==
    /\ st_kind = "stream_users_in_batches"
    /\ LET batch == fetchmany(st_rows, st_pos, st_batch_size) IN
       gen_resume(~batch_done(batch), batch_item(batch), Len(batch))

\* next() on stream_user_ages(): lines 22-47; line 38: yield row[0].
stream_user_ages_next ==
    /\ st_kind = "stream_user_ages"
    /\ gen_resume(st_pos < Len(st_rows), AgeTuple(st_rows[st_pos + 1])[1], 1)

\* The consumer abandons the generator before it is exhausted: close() on it,
\* or its last reference dropped (islice(stream_users(), 6) in the source).
\* GeneratorExit is raised at the yield; it is no Exception, so neither except
\* clause catches it, and the close() calls after the loop are not reached.
\* A generator that never ran has no connection.
generator_close ==
    /\ st_gen \in {"created", "suspended"}
    /\ st_gen' = "finished"
    /\ st_end' = "closed"
    /\ IF st_gen = "created"
       THEN st_conn' = st_conn
       ELSE \E c \in Abandoned : st_conn' = c
    /\ UNCHANGED <<st_kind, st_batch_size, st_rows, st_closes, st_pos, st_out, st_err>>

\* s[1] \o s[2] \o ... for a sequence of sequences.
RECURSIVE Flatten(_)
Flatten(ss) == IF ss = <<>> THEN <<>> ELSE Head(ss) \o Flatten(Tail(ss))

\* ------------------------------------------------------------------ C7

C8_ErrorPropagatesAndConnectionClosed ==
    (st_kind \in {"stream_users", "stream_users_in_batches"} /\ st_err = "fetch") =>
       /\ st_end = "error"
       /\ st_conn = "closed"

\* ------------------------------------------------------------------ C9

\* C9 as stated: once the generator is finished, by exhaustion or because the
\* consumer abandoned it, its connection is not open.
C9_NoOpenConnectionAfterFinish ==
    (st_gen = "finished" /\ st_err = "none") => st_conn # "open"

\* ------------------------------------------------------------------ C10

PageFetchOutcomes == {"ok", "connect_error", "query_error"}

\* SELECT * FROM user_data LIMIT limit OFFSET offset over the rows of the
\* table: the rows after the first offset ones, at most limit of them.
limit_offset(rows, limit, offset) ==
    SubSeq(rows, offset + 1, Min(offset + limit, Len(rows)))

\* paginate_users(page_size, offset) over a store holding rows: the page as a
\* list of dicts, or the empty list that both except clauses return.
paginate_users(rows, page_size, offset, ev) ==
    IF ev = "ok"
    THEN LET fetched == limit_offset(rows, page_size, offset)
         IN [i \in 1..Len(fetched) |-> dict_of(RealDictRow(fetched[i]))]
    ELSE <<>>

\* What a call of paginate_users did to the store: the LIMIT and OFFSET it
\* asked for, the connection it opened (0: psycopg2.connect raised; else the
\* number of the connection, a new one per call), and whether it closed it:
\* connection.close() is the last statement of the try block, so a call that
\* leaves the block through an except clause leaves its connection unclosed.
PageFetch(limit, offset, ev, before) ==
    [limit   |-> limit,
     offset  |-> offset,
     outcome |-> ev,
     conn    |-> IF ev = "connect_error"
                 THEN 0
                 ELSE 1 + Cardinality({k \in DOMAIN before : before[k].conn # 0}),
     closed  |-> ev = "ok"]

PgInit ==
    /\ pg_rows \in ResultSets
    /\ pg_page_size \in 1..MaxPage
    /\ pg_gen = "created"
    /\ pg_offset = 0
    /\ pg_requests = 0
    /\ pg_fetches = <<>>
    /\ pg_out = <<>>
    /\ pg_end = "none"

\* offset += page_size, with an offset that advances by one row instead.
next_offset_by_one(offset, page_size) == offset + 1

\* offset += page_size
next_offset(offset, page_size) == offset + page_size

\* if not page: break
page_done(page) == page = <<>>

\* next() on the generator: from its creation it runs `offset = 0` and enters
\* the loop; from its yield it runs `offset += page_size` and loops. Either
\* way it then calls paginate_users once, and ends the iteration on an empty
\* page or yields the page.
lazy_pagination_next ==
    /\ pg_gen \in {"created", "suspended"}
    /\ \E ev \in PageFetchOutcomes :
        LET offset == IF pg_gen = "created"
                      THEN 0
                      ELSE next_offset(pg_offset, pg_page_size)
            page == paginate_users(pg_rows, pg_page_size, offset, ev)
        IN /\ pg_requests' = pg_requests + 1
           /\ pg_offset' = offset
           /\ pg_fetches' = Append(pg_fetches,
                                   PageFetch(pg_page_size, offset, ev, pg_fetches))
           /\ IF page_done(page)
              THEN /\ pg_gen' = "finished"
                   /\ pg_end' = "StopIteration"
                   /\ pg_out' = pg_out
              ELSE /\ pg_gen' = "suspended"
                   /\ pg_end' = pg_end
                   /\ pg_out' = Append(pg_out, page)
    /\ UNCHANGED <<pg_rows, pg_page_size>>

\* The consumer drops the generator before its end (a `break` in its for
\* loop, or the BrokenPipeError of __main__): the generator is closed at its
\* yield or before its first statement, where it holds no connection.
lazy_pagination_close ==
    /\ pg_gen \in {"created", "suspended"}
    /\ pg_gen' = "finished"
    /\ pg_end' = "closed"
    /\ UNCHANGED <<pg_rows, pg_page_size, pg_offset, pg_requests, pg_fetches, pg_out>>

Ceil(m, p) == (m + p - 1) \div p

PgFailed == \E k \in DOMAIN pg_fetches : pg_fetches[k].outcome # "ok"

\* ------------------------------------------------------------------ C11

\* C11: over a store of M rows that does not change and a page size P >= 1,
\* an iteration of lazy_pagination(P) that ends with StopIteration has
\* yielded exactly ceil(M/P) pages, none of them empty (none at all when
\* M = 0), holding the rows of the store in order.
C11_YieldsCeilPagesThenStops ==
    /\ \A k \in DOMAIN pg_out : pg_out[k] # <<>>
    /\ pg_end = "StopIteration" =>
        /\ Len(pg_out) = Ceil(Len(pg_rows), pg_page_size)
        /\ Flatten(pg_out) = pg_rows

\* ------------------------------------------------------------------ C12

\* C12: the k-th call of paginate_users (k = 0, 1, ...) asks for LIMIT P and
\* OFFSET k*P, so the offsets increase strictly; every call that connects
\* does so on a connection of its own; and there is one call per request of
\* the consumer, so that at most one page is fetched beyond those already
\* yielded.
C12_FetchesAreLazyAndAdvanceByPage ==
    /\ \A k \in DOMAIN pg_fetches :
        /\ pg_fetches[k].limit = pg_page_size
        /\ pg_fetches[k].offset = (k - 1) * pg_page_size
    /\ \A j, k \in DOMAIN pg_fetches :
        /\ j < k => pg_fetches[j].offset < pg_fetches[k].offset
        /\ (j # k /\ pg_fetches[j].conn # 0) => pg_fetches[j].conn # pg_fetches[k].conn
    /\ Len(pg_fetches) = pg_requests
    /\ Len(pg_fetches) <= Len(pg_out) + 1
    /\ pg_gen = "suspended" => Len(pg_fetches) = Len(pg_out)

\* Pages of two rows or more: the first two calls found a page each, and the
\* third call, at offset 2*P, found the end of the table.
C12_Witness ==
    /\ pg_page_size >= 2
    /\ pg_end = "StopIteration"
    /\ Len(pg_out) = 2
    /\ Len(pg_fetches) = 3
    /\ pg_fetches[3].offset = 2 * pg_page_size
    /\ pg_fetches[3].outcome = "ok"

\* ------------------------------------------------------------------ C19

\* C19: a call of paginate_users that hits a connection or query error ends
\* the consumer's iteration with that error, after the connection it opened
\* was closed, and not with StopIteration.
C19_FetchErrorReachesConsumer ==
    \A k \in DOMAIN pg_fetches :
        pg_fetches[k].outcome # "ok" =>
            /\ pg_end = "error"
            /\ pg_fetches[k].conn # 0 => pg_fetches[k].closed

\* ========================================================================
\* Concurrent orchestrator
\* ========================================================================

\* The awaitables handed to asyncio.gather, by position: 1 is
\* async_fetch_users(), 2 is async_fetch_older_users().
Coros == {1, 2}

\* The users table: up to MaxUsers rows (id, age), some older than 40.
Ages == {30, 50}

UsersTables ==
    UNION {{[i \in 1..n |-> <<i, ages[i]>>] : ages \in [1..n -> Ages]} : n \in 0..MaxUsers}

\* What the query of coroutine t selects: SELECT * FROM users, and
\* SELECT * FROM users WHERE age > ? with (40,).
older_than_40(row) == row[2] > 40

async_fetch_query(t, users) ==
    IF t = 1 THEN users ELSE SelectSeq(users, older_than_40)

NoExc == [by |-> 0, at |-> "none"]

TaskNotCreated == [pc |-> "none", db |-> 0, results |-> <<>>, exc |-> NoExc]

\* The future of gather(*aws): pending until every child has returned or one
\* child has raised; it keeps each child's result under the child's position.
GatherPending ==
    [state |-> "pending", order |-> <<>>, results |-> [t \in Coros |-> <<>>], exc |-> NoExc]

\* gather's done-callback for a child that returned value.
gather_child_done(fut, t, value) ==
    LET order == Append(fut.order, t)
    IN [fut EXCEPT !.order = order,
                   !.results[t] = value,
                   !.state = IF fut.state = "pending" /\ Len(order) = Cardinality(Coros)
                             THEN "result"
                             ELSE @]

\* gather(..., return_exceptions=True): the exception is kept as the child's
\* result.
gather_child_failed_return_exceptions(fut, t, exc) == gather_child_done(fut, t, exc)

\* gather's done-callback for a child that raised exc (return_exceptions is
\* False by default): the first exception becomes the outcome of the future.
gather_child_failed(fut, t, exc) ==
    IF fut.state = "pending"
    THEN [fut EXCEPT !.state = "exception", !.exc = exc]
    ELSE fut

\* The results taken in the order in which the children finished.
gather_results_as_completed(fut) == [i \in 1..Len(fut.order) |-> fut.results[fut.order[i]]]

\* The result of the future: the children's results in the order of the
\* awaitables passed in.
gather_results(fut) == [i \in 1..Cardinality(Coros) |-> fut.results[i]]

AcInit ==
    /\ ac_users \in UsersTables
    /\ ac_fc = "idle"
    /\ ac_fc_results = <<>>
    /\ ac_fc_exc = NoExc
    /\ ac_task = [t \in Coros |-> TaskNotCreated]
    /\ ac_conns = <<>>
    /\ ac_gather = GatherPending

\* fetch_concurrently up to its await: gather wraps both coroutines in tasks
\* and schedules them.
fetch_concurrently_call ==
    /\ ac_fc = "idle"
    /\ ac_fc' = "gathering"
    /\ ac_task' = [t \in Coros |-> [TaskNotCreated EXCEPT !.pc = "scheduled"]]
    /\ UNCHANGED <<ac_users, ac_fc_results, ac_fc_exc, ac_conns, ac_gather>>

\* A task ends by raising exc: leaving the async with block closes its
\* connection, if it has one, and gather's callback sees the exception.
async_fetch_raise(t, exc) ==
    /\ ac_task' = [ac_task EXCEPT ![t].pc = "failed", ![t].exc = exc]
    /\ ac_conns' = IF ac_task[t].db = 0 THEN ac_conns ELSE conn_close(ac_conns, ac_task[t].db)
    /\ ac_gather' = gather_child_failed(ac_gather, t, exc)

\* Coroutines that share one module-wide connection: the first to connect
\* opens it, the other uses the same one.
async_fetch_connect_shared(t) ==
    /\ ac_task[t].pc = "scheduled"
    /\ \/ /\ ac_conns' = IF ac_conns = <<>>
                         THEN Append(ac_conns, [by |-> t, closes |-> 0])
                         ELSE ac_conns
          /\ ac_task' = [ac_task EXCEPT ![t].pc = "connected", ![t].db = 1]
          /\ ac_gather' = ac_gather
       \/ async_fetch_raise(t, [by |-> t, at |-> "connect"])
    /\ UNCHANGED <<ac_users, ac_fc, ac_fc_results, ac_fc_exc>>

\* async with aiosqlite.connect('users.db') as db
async_fetch_connect(t) ==
    /\ ac_task[t].pc = "scheduled"
    /\ \/ /\ ac_conns' = Append(ac_conns, [by |-> t, closes |-> 0])
          /\ ac_task' = [ac_task EXCEPT ![t].pc = "connected", ![t].db = Len(ac_conns) + 1]
          /\ ac_gather' = ac_gather
       \/ async_fetch_raise(t, [by |-> t, at |-> "connect"])
    /\ UNCHANGED <<ac_users, ac_fc, ac_fc_results, ac_fc_exc>>

\* cursor = await db.execute(...)
async_fetch_execute(t) ==
    /\ ac_task[t].pc = "connected"
    /\ \/ /\ ac_task' = [ac_task EXCEPT ![t].pc = "executed"]
          /\ UNCHANGED <<ac_conns, ac_gather>>
       \/ async_fetch_raise(t, [by |-> t, at |-> "execute"])
    /\ UNCHANGED <<ac_users, ac_fc, ac_fc_results, ac_fc_exc>>

\* results = await cursor.fetchall(), and the prints that follow it
async_fetch_fetchall(t) ==
    /\ ac_task[t].pc = "executed"
    /\ \/ /\ ac_task' = [ac_task EXCEPT ![t].pc = "fetched",
                                        ![t].results = async_fetch_query(t, ac_users)]
          /\ UNCHANGED <<ac_conns, ac_gather>>
       \/ async_fetch_raise(t, [by |-> t, at |-> "fetchall"])
    /\ UNCHANGED <<ac_users, ac_fc, ac_fc_results, ac_fc_exc>>

\* return results: the async with block is left, the connection closed, the
\* task done, and gather's callback sees its result.
async_fetch_return(t) ==
    /\ ac_task[t].pc = "fetched"
    /\ ac_task' = [ac_task EXCEPT ![t].pc = "done"]
    /\ ac_conns' = conn_close(ac_conns, ac_task[t].db)
    /\ ac_gather' = gather_child_done(ac_gather, t, ac_task[t].results)
    /\ UNCHANGED <<ac_users, ac_fc, ac_fc_results, ac_fc_exc>>

\* asyncio.run cancels the tasks still pending once fetch_concurrently has
\* raised: CancelledError is thrown into the task at its await.
async_fetch_cancelled(t) ==
    /\ ac_fc = "raised"
    /\ ac_task[t].pc \in {"scheduled", "connected", "executed", "fetched"}
    /\ ac_task' = [ac_task EXCEPT ![t].pc = "cancelled"]
    /\ ac_conns' = IF ac_task[t].db = 0 THEN ac_conns ELSE conn_close(ac_conns, ac_task[t].db)
    /\ UNCHANGED <<ac_users, ac_fc, ac_fc_results, ac_fc_exc, ac_gather>>

\* results = await asyncio.gather(...) resumes once the future has an
\* outcome: with its result, and fetch_concurrently prints and returns it;
\* or with its exception, which fetch_concurrently does not catch.
fetch_concurrently_resume ==
    /\ ac_fc = "gathering"
    /\ ac_gather.state # "pending"
    /\ IF ac_gather.state = "result"
       THEN /\ ac_fc' = "returned"
            /\ ac_fc_results' = gather_results(ac_gather)
            /\ ac_fc_exc' = ac_fc_exc
       ELSE /\ ac_fc' = "raised"
            /\ ac_fc_exc' = ac_gather.exc
            /\ ac_fc_results' = ac_fc_results
    /\ UNCHANGED <<ac_users, ac_task, ac_conns, ac_gather>>

\* ------------------------------------------------------------------ C13

\* C13: when fetch_concurrently has returned, both tasks are done, and what
\* it returned is the list [what async_fetch_users returned, what
\* async_fetch_older_users returned], whichever of the two finished first.
C13_ReturnsBothResultsInInputOrder ==
    ac_fc = "returned" =>
        /\ \A t \in Coros : ac_task[t].pc = "done"
        /\ Len(ac_fc_results) = 2
        /\ ac_fc_results[1] = ac_task[1].results
        /\ ac_fc_results[2] = ac_task[2].results
        /\ ac_fc_results[1] = ac_users
        /\ ac_fc_results[2] = SelectSeq(ac_users, older_than_40)

\* fetch_concurrently has returned after async_fetch_older_users finished
\* first, and the two results differ.
C13_Witness ==
    /\ ac_fc = "returned"
    /\ ac_gather.order = <<2, 1>>
    /\ ac_fc_results[1] # ac_fc_results[2]

\* ------------------------------------------------------------------ C14

\* C14: once one of the two tasks has raised, fetch_concurrently does not
\* return a result list: the awaited future holds the exception of the first
\* task that raised, and fetch_concurrently is either still suspended at its
\* await, which that exception is about to resume, or has raised it.
C14_TaskErrorFailsFetchConcurrently ==
    (\E t \in Coros : ac_task[t].pc = "failed") =>
        /\ ac_fc \in {"gathering", "raised"}
        /\ ac_fc_results = <<>>
        /\ ac_gather.state = "exception"
        /\ ac_fc = "gathering" => ENABLED fetch_concurrently_resume
        /\ ac_fc = "raised" =>
            /\ ac_fc_exc = ac_gather.exc
            /\ ac_task[ac_fc_exc.by].exc = ac_fc_exc

\* fetch_concurrently has raised the error of async_fetch_older_users'
\* query, and async_fetch_users has nevertheless run to its end.
C14_Witness ==
    /\ ac_fc = "raised"
    /\ ac_fc_exc = [by |-> 2, at |-> "execute"]
    /\ ac_task[1].pc = "done"

\* ------------------------------------------------------------------ C24

\* The task is inside its async with block.
TaskInBlock(t) == ac_task[t].pc \in {"connected", "executed", "fetched"}

\* The task is over: it returned, raised, or was cancelled.
TaskOver(t) == ac_task[t].pc \in {"done", "failed", "cancelled"}

\* C24: every connection was opened by one task and is the connection of
\* that task alone; it is open for as long as its task is inside its async
\* with block, and has been closed exactly once as soon as the task is over,
\* however the task and its sibling ended.
C24_OwnConnectionClosedOnce ==
    /\ \A c \in DOMAIN ac_conns :
         /\ ac_conns[c].by \in Coros
         /\ ac_task[ac_conns[c].by].db = c
         /\ \A t \in Coros : ac_task[t].db = c => t = ac_conns[c].by
    /\ \A t \in Coros :
         /\ TaskInBlock(t) =>
              /\ ac_task[t].db \in DOMAIN ac_conns
              /\ ac_conns[ac_task[t].db].closes = 0
         /\ (TaskOver(t) /\ ac_task[t].db # 0) => ac_conns[ac_task[t].db].closes = 1
         /\ (TaskOver(t) /\ ac_task[t].db = 0) => ac_task[t].exc.at \in {"connect", "none"}

\* async_fetch_users has failed on its query, fetch_concurrently has raised
\* that, the sibling was cancelled inside its block, and each of the two
\* connections has been closed once.
C24_Witness ==
    /\ ac_task[1].pc = "failed" /\ ac_task[1].exc.at = "execute"
    /\ ac_fc = "raised"
    /\ ac_task[2].pc = "cancelled"
    /\ Len(ac_conns) = 2
    /\ \A c \in DOMAIN ac_conns : ac_conns[c].closes = 1

\* ========================================================================
\* Scoped query
\* ========================================================================

\* How __enter__ can go: every statement runs; sqlite3.connect raises; or
\* cursor.execute / cursor.fetchall raises once the connection is open.
EnterOutcomes == {"ok", "connect_error", "execute_error"}

EqInit ==
    /\ eq_pc = "idle"
    /\ eq_made = FALSE
    /\ eq_connection = 0
    /\ eq_cursor = 0
    /\ eq_results = None
    /\ eq_exc = "none"
    /\ eq_conns = <<>>
    /\ eq_calls = <<>>

\* The caller runs one scoped call at a time, MaxCalls of them in all.
CallerIdle ==
    /\ sc_pc = "idle"
    /\ eq_pc = "idle"
    /\ Len(sc_calls) + Len(eq_calls) < MaxCalls

\* ExecuteQuery.__init__: connection, cursor and results are None.
ExecuteQuery_init ==
    /\ CallerIdle
    /\ ~eq_made \/ eq_connection # 0
    /\ eq_made' = TRUE
    /\ eq_connection' = 0
    /\ eq_cursor' = 0
    /\ eq_results' = None
    /\ UNCHANGED <<eq_pc, eq_exc, eq_conns, eq_calls>>

\* ExecuteQuery.__enter__: connect, cursor, execute, fetchall, return
\* self.results.  An exception out of __enter__ leaves the with statement at
\* once: neither the body nor __exit__ runs, and the fields keep what was
\* assigned before the statement that raised.
ExecuteQuery_enter ==
    /\ CallerIdle
    /\ eq_made
    /\ \E ev \in EnterOutcomes :
         CASE ev = "connect_error" ->
                /\ eq_calls' = Append(eq_calls,
                       ScopeFinished("execute", 0, FALSE, "none", 0, "connect_error"))
                /\ UNCHANGED <<eq_pc, eq_connection, eq_cursor, eq_results, eq_conns>>
           [] ev = "execute_error" ->
                /\ eq_conns' = Append(eq_conns, [closes |-> 0, cursor_closes |-> 0])
                /\ eq_connection' = Len(eq_conns) + 1
                /\ eq_cursor' = Len(eq_conns) + 1
                /\ eq_calls' = Append(eq_calls,
                       ScopeFinished("execute", Len(eq_conns) + 1, FALSE, "none", 0,
                                     "execute_error"))
                /\ UNCHANGED <<eq_pc, eq_results>>
           [] OTHER ->
                /\ eq_conns' = Append(eq_conns, [closes |-> 0, cursor_closes |-> 0])
                /\ eq_connection' = Len(eq_conns) + 1
                /\ eq_cursor' = Len(eq_conns) + 1
                /\ eq_results' = "rows"
                /\ eq_pc' = "body"
                /\ UNCHANGED eq_calls
    /\ UNCHANGED <<eq_made, eq_exc>>

\* The body of `with ExecuteQuery(...) as results:`.
ExecuteQuery_body ==
    /\ eq_pc = "body"
    /\ \E out \in BodyOutcomes : eq_exc' = out
    /\ eq_pc' = "exit"
    /\ UNCHANGED <<eq_made, eq_connection, eq_cursor, eq_results, eq_conns, eq_calls>>

\* ExecuteQuery.__exit__: if self.cursor: self.cursor.close();
\* if self.connection: self.connection.close(); return False.
ExecuteQuery_exit ==
    /\ eq_pc = "exit"
    /\ LET cursor_closed == IF eq_cursor # 0
                            THEN [eq_conns EXCEPT ![eq_cursor].cursor_closes = @ + 1]
                            ELSE eq_conns
       IN eq_conns' = IF eq_connection # 0
                      THEN conn_close(cursor_closed, eq_connection)
                      ELSE cursor_closed
    /\ eq_calls' = Append(eq_calls,
           ScopeFinished("execute", eq_connection, TRUE, eq_exc,
                         IF eq_connection # 0 THEN 1 ELSE 0,
                         with_outcome(eq_exc, ExecuteQuery_exit_returns)))
    /\ eq_pc' = "idle"
    /\ eq_exc' = "none"
    /\ UNCHANGED <<eq_made, eq_connection, eq_cursor, eq_results>>

\* ------------------------------------------------------------------ C25

\* C25: once a with ExecuteQuery statement is over, the connection its
\* __enter__ opened has been closed, whether the body returned or raised or
\* the query failed inside __enter__ after the connect.
C25_ExecuteQueryClosesOnEveryExit ==
    \A i \in DOMAIN eq_calls :
        eq_calls[i].conn # 0 =>
            /\ eq_calls[i].conn \in DOMAIN eq_conns
            /\ eq_conns[eq_calls[i].conn].closes = 1

\* ------------------------------------------------------------------ C17

\* The connections of the scope a finished call is of.
ConnsOf(call) == IF call.kind = "execute" THEN eq_conns ELSE conns

ScopedCalls == {sc_calls[i] : i \in DOMAIN sc_calls} \cup {eq_calls[i] : i \in DOMAIN eq_calls}

\* C17: a finished call of any of the three scopes whose func / with-body
\* raised has handed that very exception to its caller, neither suppressed
\* nor replaced, and its connection had been closed by then.
C17_BodyErrorReachesCallerAfterClose ==
    \A call \in ScopedCalls :
        (call.invoked /\ call.body \in {"Exception", "BaseException"}) =>
            /\ call.outcome = call.body
            /\ call.close_attempts = 1
            /\ ConnsOf(call)[call.conn].closes = 1

\* A call of each scope has ended with the Exception its func / with-body
\* raised.
C17_Witness ==
    \A kind \in {"decorator", "context", "execute"} :
        \E call \in ScopedCalls :
            /\ call.kind = kind
            /\ call.body = "Exception"
            /\ call.outcome = "Exception"

\* ------------------------------------------------------------------ C18

\* C18: a call through with_db_connection whose connect raised has handed
\* the error of the connect to its caller, has not invoked func, and has
\* invoked close() on nothing; close() has been invoked only on connections
\* that were opened.
C18_ConnectErrorPropagatesWithoutCallOrClose ==
    \A i \in DOMAIN sc_calls :
        LET call == sc_calls[i] IN
        call.kind = "decorator" =>
            /\ call.conn = 0 =>
                /\ call.outcome = "connect_error"
                /\ ~call.invoked
                /\ call.close_attempts = 0
            /\ call.conn # 0 =>
                /\ call.conn \in DOMAIN conns
                /\ call.invoked

\* A call whose connect raised has finished, after one whose connect
\* succeeded.
C18_Witness ==
    \E i, j \in DOMAIN sc_calls :
        /\ i < j
        /\ sc_calls[i].kind = "decorator" /\ sc_calls[i].conn # 0
        /\ sc_calls[j].kind = "decorator" /\ sc_calls[j].outcome = "connect_error"
        /\ Len(conns) = 1

\* ========================================================================
\* Transactional update
\* ========================================================================

\* update_user_email is with_db_connection(transactional(op)): the outer
\* wrapper opens the connection and calls the transactional wrapper with it,
\* which calls op with it, commits or rolls back on it, and hands its
\* outcome back to the outer wrapper, which closes the connection.

UeInit ==
    /\ ue_conn = 0
    /\ ue_trace = <<>>

\* Something done on connection c, and whether c was still open then.
UeEvent(m, c) == [m |-> m, conn |-> c, open |-> conns[c].closes = 0]

\* with_db_connection.wrapper, line 25: conn = sqlite3.connect('users.db')
update_user_email_connect ==
    /\ tx_pc = "idle"
    /\ with_db_connection_connect
    /\ UNCHANGED <<txVars, ueVars>>

\* The outer wrapper has called func(conn, ...), which is the transactional
\* wrapper, and that call has not started yet.
InnerPending == sc_pc = "func" /\ tx_pc = "idle" /\ Len(tx_calls) < Len(conns)

\* The call of the transactional wrapper is over.
InnerFinished == sc_pc = "func" /\ tx_pc = "idle" /\ Len(tx_calls) = Len(conns)

\* with_db_connection.wrapper, line 29, into transactional.wrapper, line 53:
\* result = func(conn, *args, **kwargs), the body of update_user_email
\* running on the connection it is handed.
update_user_email_func ==
    /\ InnerPending
    /\ transactional_func
    /\ ue_conn' = sc_conn
    /\ ue_trace' = Append(ue_trace, UeEvent("func", sc_conn))
    /\ UNCHANGED scopeVars

\* A transactional wrapper that commits on a connection of its own instead
\* of the one it was handed.
update_user_email_commit_on_own_connection ==
    /\ sc_pc = "func"
    /\ transactional_commit
    /\ ue_trace' = Append(ue_trace, [m |-> "commit", conn |-> Len(conns) + 1, open |-> TRUE])
    /\ UNCHANGED <<scopeVars, ue_conn>>

\* transactional.wrapper, lines 56-59: conn.commit() on the wrapper's conn
update_user_email_commit ==
    /\ sc_pc = "func"
    /\ transactional_commit
    /\ ue_trace' = Append(ue_trace, UeEvent("commit", ue_conn))
    /\ UNCHANGED <<scopeVars, ue_conn>>

\* transactional.wrapper, lines 61-65: conn.rollback() on the wrapper's conn
update_user_email_except ==
    /\ sc_pc = "func"
    /\ transactional_except
    /\ ue_trace' = Append(ue_trace, UeEvent("rollback", ue_conn))
    /\ UNCHANGED <<scopeVars, ue_conn>>

\* How a finished call of the transactional wrapper ends the try block of
\* the outer wrapper.
InnerOutcome(call) ==
    CASE call.outcome = "return" -> "return"
      [] call.value = "func_interrupt" -> "BaseException"
      [] OTHER -> "Exception"

\* with_db_connection.wrapper, lines 29-30: the call of func is over, with a
\* result to return or an exception on its way out.
update_user_email_return ==
    /\ InnerFinished
    /\ with_db_connection_func
    /\ sc_exc' = InnerOutcome(tx_calls[Len(tx_calls)])
    /\ UNCHANGED <<txVars, ue_trace>>
    /\ ue_conn' = 0

\* with_db_connection.wrapper, lines 31-33: finally: conn.close()
update_user_email_finally ==
    /\ with_db_connection_finally
    /\ ue_trace' = Append(ue_trace, UeEvent("close", sc_conn))
    /\ UNCHANGED <<txVars, ue_conn>>

\* ------------------------------------------------------------------ C16

\* C16: every commit and every rollback of update_user_email is invoked on
\* the connection the body of update_user_email ran on in the same call;
\* that connection is open at that moment and has not been closed before;
\* and it is closed afterwards, once the call is over.
C16_CommitRollbackOnOpenPassedConnection ==
    \A k \in DOMAIN ue_trace :
        ue_trace[k].m \in {"commit", "rollback"} =>
            /\ ue_trace[k].conn \in DOMAIN conns
            /\ ue_trace[k].open
            /\ \E j \in 1..(k - 1) :
                 /\ ue_trace[j].m = "func"
                 /\ ue_trace[j].conn = ue_trace[k].conn
                 /\ \A i \in j..k : ue_trace[i].m # "close"
            /\ \A j \in 1..(k - 1) :
                 ue_trace[j].m = "close" => ue_trace[j].conn # ue_trace[k].conn
            /\ sc_pc = "idle" =>
                 \E l \in (k + 1)..Len(ue_trace) :
                     ue_trace[l] = [m |-> "close", conn |-> ue_trace[k].conn, open |-> TRUE]

\* Three calls are over: one committed, one rolled back, and one whose
\* commit raised and was rolled back, each on its own connection, closed
\* last.
C16_Witness ==
    LET On(m, c) == [m |-> m, conn |-> c, open |-> TRUE] IN
    /\ Len(ue_trace) = 10
    /\ \E a, b, c \in DOMAIN conns :
         /\ \E k \in 1..(Len(ue_trace) - 2) : SubSeq(ue_trace, k, k + 2) =
                <<On("func", a), On("commit", a), On("close", a)>>
         /\ \E k \in 1..(Len(ue_trace) - 2) : SubSeq(ue_trace, k, k + 2) =
                <<On("func", b), On("rollback", b), On("close", b)>>
         /\ \E k \in 1..(Len(ue_trace) - 3) : SubSeq(ue_trace, k, k + 3) =
                <<On("func", c), On("commit", c), On("rollback", c), On("close", c)>>

\* ========================================================================
\* Retried fetch
\* ========================================================================

\* fetch_users_with_retry is with_db_connection(retry_on_failure(retries=3,
\* delay=1)(body)): the outer wrapper opens the connection and calls the
\* retry wrapper with it once; the retry wrapper calls the body with the
\* same arguments at every attempt.

FrInit ==
    /\ fr_conn = 0
    /\ fr_trace = <<>>

\* @retry_on_failure(retries=3, delay=1)
FrRtInit ==
    /\ rt_retries = 3
    /\ rt_delay = 1
    /\ rt_pc = "idle"
    /\ rt_attempt = 0
    /\ rt_last = 0
    /\ rt_invoked = 0
    /\ rt_events = <<>>
    /\ rt_calls = <<>>

\* with_db_connection.wrapper, line 26: conn = sqlite3.connect('users.db')
fetch_users_with_retry_connect ==
    /\ rt_pc = "idle"
    /\ Len(rt_calls) < MaxRetryCalls
    /\ with_db_connection_connect
    /\ UNCHANGED <<rtVars, frVars>>

\* with_db_connection.wrapper, line 30: func(conn, *args, **kwargs) enters
\* the retry wrapper, whose args[0] is conn.
fetch_users_with_retry_call ==
    /\ sc_pc = "func"
    /\ Len(rt_calls) < Len(conns)
    /\ retry_on_failure_call
    /\ fr_conn' = sc_conn
    /\ UNCHANGED <<scopeVars, fr_trace>>

\* A retry wrapper placed outside the connection scope: every attempt runs
\* on a connection of its own.
fetch_users_with_retry_attempt_on_own_connection ==
    /\ sc_pc = "func"
    /\ retry_on_failure_attempt
    /\ fr_trace' = Append(fr_trace,
           [m |-> "attempt", conn |-> Len(conns) + rt_invoked + 1, open |-> TRUE])
    /\ UNCHANGED <<scopeVars, fr_conn>>

\* retry wrapper, lines 57-73: func(*args, **kwargs), the body of
\* fetch_users_with_retry running on args[0].
fetch_users_with_retry_attempt ==
    /\ sc_pc = "func"
    /\ retry_on_failure_attempt
    /\ fr_trace' = Append(fr_trace, UeEvent("attempt", fr_conn))
    /\ UNCHANGED <<scopeVars, fr_conn>>

\* retry wrapper, line 71: time.sleep(delay), the connection held meanwhile
fetch_users_with_retry_sleep ==
    /\ sc_pc = "func"
    /\ retry_on_failure_sleep
    /\ fr_trace' = Append(fr_trace, UeEvent("sleep", fr_conn))
    /\ UNCHANGED <<scopeVars, fr_conn>>

\* retry wrapper, line 76: raise last_exception
fetch_users_with_retry_raise ==
    /\ sc_pc = "func"
    /\ retry_on_failure_raise
    /\ UNCHANGED <<scopeVars, frVars>>

\* How a finished call of the retry wrapper ends the try block of the outer
\* wrapper.
RetryOutcome(call) ==
    CASE call.outcome = "return" -> "return"
      [] call.outcome = "raise_interrupt" -> "BaseException"
      [] OTHER -> "Exception"

\* with_db_connection.wrapper, lines 30-31: the call of func is over.
fetch_users_with_retry_return ==
    /\ sc_pc = "func"
    /\ rt_pc = "idle"
    /\ Len(rt_calls) = Len(conns)
    /\ with_db_connection_func
    /\ sc_exc' = RetryOutcome(rt_calls[Len(rt_calls)])
    /\ fr_conn' = 0
    /\ UNCHANGED <<rtVars, fr_trace>>

\* with_db_connection.wrapper, lines 32-34: finally: conn.close()
fetch_users_with_retry_finally ==
    /\ with_db_connection_finally
    /\ fr_trace' = Append(fr_trace, UeEvent("close", sc_conn))
    /\ UNCHANGED <<rtVars, fr_conn>>

\* ------------------------------------------------------------------ C28

\* The events of the trace on connection c.
OnConn(c) == SelectSeq(fr_trace, LAMBDA ev : ev.conn = c)

\* C28: a call of fetch_users_with_retry opens at most one connection, and
\* none after a connect that failed: the k-th connection opened serves the
\* k-th call of the retry wrapper alone.  All its attempts and all the
\* sleeps between them are on that connection while it is open; it is
\* closed once, after the last attempt, and nothing is done on it after.
C28_OneConnectionAcrossAttempts ==
    /\ Len(conns) = Len(rt_calls) + (IF sc_pc \in {"func", "finally"} /\ Len(rt_calls) < Len(conns) THEN 1 ELSE 0)
    /\ Len(sc_calls) + (IF sc_pc = "idle" THEN 0 ELSE 1) =
          Len(conns) + Cardinality({i \in DOMAIN sc_calls : sc_calls[i].outcome = "connect_error"})
    /\ \A k \in DOMAIN fr_trace :
         /\ fr_trace[k].conn \in DOMAIN conns
         /\ fr_trace[k].open
         /\ \A j \in 1..(k - 1) :
              /\ fr_trace[j].conn <= fr_trace[k].conn
              /\ fr_trace[j].m = "close" => fr_trace[j].conn < fr_trace[k].conn
    /\ \A c \in DOMAIN conns :
         /\ conns[c].closes = (IF c = sc_conn THEN 0 ELSE 1)
         /\ c \in DOMAIN rt_calls =>
              Len(SelectSeq(OnConn(c), LAMBDA ev : ev.m = "attempt")) = rt_calls[c].invoked
         /\ c # sc_conn =>
              /\ OnConn(c) # <<>>
              /\ OnConn(c)[Len(OnConn(c))].m = "close"

\* A call made three attempts, sleeping twice, all on connection 1, which
\* was then closed; the next call could not connect.
C28_Witness ==
    LET On(m) == [m |-> m, conn |-> 1, open |-> TRUE] IN
    /\ fr_trace = <<On("attempt"), On("sleep"), On("attempt"), On("sleep"),
                    On("attempt"), On("close")>>
    /\ Len(sc_calls) = 2
    /\ sc_calls[2].outcome = "connect_error"
    /\ Len(conns) = 1

\* ========================================================================
\* Cached fetch
\* ========================================================================

\* fetch_users_with_cache is with_db_connection(cache_query(body)): the
\* outer wrapper opens the connection before the cache wrapper looks at the
\* cache, and closes it after the cache wrapper is done.

FcInit ==
    /\ fc_conn = 0
    /\ fc_trace = <<>>

\* with_db_connection.wrapper, line 30: conn = sqlite3.connect('users.db')
fetch_users_with_cache_connect ==
    /\ ch_pc[1] = "idle"
    /\ ChBegun < MaxCacheCalls
    /\ with_db_connection_connect
    /\ UNCHANGED <<chVars, fcVars>>

\* A cache wrapper that runs the query on a hit as well, to refresh the
\* stored result.
fetch_users_with_cache_check_and_execute ==
    /\ sc_pc = "func"
    /\ Len(ch_calls) < Len(conns)
    /\ cache_query_check(1)
    /\ fc_conn' = sc_conn
    /\ fc_trace' = Append(fc_trace, UeEvent("execute", sc_conn))
    /\ UNCHANGED scopeVars

\* with_db_connection.wrapper, line 34: func(conn, *args, **kwargs) enters
\* the cache wrapper, lines 57-62: on a hit it returns the stored result
\* without calling the body.
fetch_users_with_cache_check ==
    /\ sc_pc = "func"
    /\ Len(ch_calls) < Len(conns)
    /\ cache_query_check(1)
    /\ fc_conn' = sc_conn
    /\ UNCHANGED <<scopeVars, fc_trace>>

\* cache wrapper, line 66: func(*args, **kwargs), the body of
\* fetch_users_with_cache: cursor.execute(query) on args[0].
fetch_users_with_cache_func ==
    /\ sc_pc = "func"
    /\ cache_query_func(1)
    /\ fc_trace' = Append(fc_trace, UeEvent("execute", fc_conn))
    /\ UNCHANGED <<scopeVars, fc_conn>>

\* cache wrapper, lines 69-71: query_cache[query] = result; return result
fetch_users_with_cache_store ==
    /\ sc_pc = "func"
    /\ cache_query_store(1)
    /\ UNCHANGED <<scopeVars, fcVars>>

\* How a finished call of the cache wrapper ends the try block of the outer
\* wrapper.
CacheOutcome(call) == IF call.outcome = "return" THEN "return" ELSE call.value

\* with_db_connection.wrapper, lines 34-35: the call of func is over.
fetch_users_with_cache_return ==
    /\ sc_pc = "func"
    /\ ch_pc[1] = "idle"
    /\ Len(ch_calls) = Len(conns)
    /\ with_db_connection_func
    /\ sc_exc' = CacheOutcome(ch_calls[Len(ch_calls)])
    /\ fc_conn' = 0
    /\ UNCHANGED <<chVars, fc_trace>>

\* with_db_connection.wrapper, lines 36-38: finally: conn.close()
fetch_users_with_cache_finally ==
    /\ with_db_connection_finally
    /\ fc_trace' = Append(fc_trace, UeEvent("close", sc_conn))
    /\ UNCHANGED <<chVars, fc_conn>>

\* ------------------------------------------------------------------ C29

\* The query executions on connection c.
ExecutionsOn(c) == SelectSeq(fc_trace, LAMBDA ev : ev.m = "execute" /\ ev.conn = c)

Executions == SelectSeq(fc_trace, LAMBDA ev : ev.m = "execute")

\* The cache keys of the calls made so far.
KeysCalled == {cache_key(ch_calls[i]) : i \in DOMAIN ch_calls}

\* Every call so far opened its connection and returned.
FcAllReturned ==
    /\ sc_pc = "idle"
    /\ \A i \in DOMAIN sc_calls : sc_calls[i].outcome = "return"

\* C29: every call of fetch_users_with_cache whose connect succeeded has a
\* connection of its own, the k-th connection serving the k-th call of the
\* cache wrapper, closed exactly once when the call is over.  A call that
\* hits the cache executes nothing on its connection and returns the stored
\* result; a call that misses executes the query once, on its open
\* connection.  So, over calls that all connected and returned, the
\* connections opened are as many as the calls, and the query executions as
\* many as the distinct keys.
C29_HitOpensConnectionWithoutQuery ==
    /\ \A c \in DOMAIN conns : conns[c].closes = (IF c = sc_conn THEN 0 ELSE 1)
    /\ \A k \in DOMAIN fc_trace :
         /\ fc_trace[k].conn \in DOMAIN conns
         /\ fc_trace[k].open
    /\ \A i \in DOMAIN ch_calls :
         /\ i \in DOMAIN conns
         /\ Len(ExecutionsOn(i)) = (IF ch_calls[i].invoked THEN 1 ELSE 0)
         /\ ~ch_calls[i].invoked =>
              /\ ch_calls[i].outcome = "return"
              /\ \E j \in 1..(i - 1) :
                   /\ cache_key(ch_calls[j]) = cache_key(ch_calls[i])
                   /\ ch_calls[j].invoked
                   /\ ch_calls[j].outcome = "return"
                   /\ ch_calls[j].value = ch_calls[i].value
    /\ FcAllReturned =>
         /\ Len(conns) = Len(sc_calls)
         /\ Len(ch_calls) = Len(sc_calls)
         /\ Len(Executions) = Cardinality(KeysCalled)
         /\ KeysCalled = DOMAIN query_cache

\* Two calls with the same query have returned, the second from the cache:
\* two connections were opened and closed, and the query ran once, on the
\* first.
C29_Witness ==
    /\ FcAllReturned
    /\ Len(sc_calls) = 2
    /\ Len(conns) = 2
    /\ ~ch_calls[2].invoked
    /\ Len(Executions) = 1
    /\ Len(ExecutionsOn(1)) = 1
    /\ conns[2].closes = 1

\* ========================================================================
\* Seeding
\* ========================================================================

\* The user_id fields a CSV row can hold: 0 stands for a missing or empty
\* field, the others for UUIDs.  The age fields: one that float() parses and
\* one that it does not.
CsvIds == 0..MaxCsvIds

CsvAges == {"30", "abc"}

CsvFiles == UNION {[1..n -> [user_id : CsvIds, age : CsvAges]] : n \in 0..MaxCsvRows}

\* float(row['age']): defined on the texts that are numbers, a ValueError on
\* the others.
float_parses(text) == text = "30"

float_of(text) == 30

\* str(uuid.uuid4()): an identifier no other row has, here made of the run
\* and the line it is generated for.
uuid4(run, line) == 100 * run + line

\* line 148-153: the user_id of the CSV row if it is a non-empty string, else
\* a generated one.
row_user_id(row, run, line) ==
    IF row.user_id # 0 THEN row.user_id ELSE uuid4(run, line)

\* INSERT INTO user_data ... ON CONFLICT (user_id) DO NOTHING
insert_on_conflict_do_nothing(table, new) ==
    IF \E r \in table : r.user_id = new.user_id THEN table ELSE table \cup {new}

SdInit ==
    /\ sd_table \in {{}, {[user_id |-> 1, name |-> 0, age |-> 30]}}
    /\ sd_csv \in CsvFiles
    /\ sd_file \in BOOLEAN
    /\ sd_file = FALSE => sd_csv = <<>>
    /\ sd_pc = "idle"
    /\ sd_pos = 0
    /\ sd_work = {}
    /\ sd_inserted = 0
    /\ sd_executed = 0
    /\ sd_runs = <<>>

\* The record of a finished run: the committed table before and after, the
\* INSERT statements executed, and how the run ended.
SdFinished(outcome, after) ==
    [before |-> sd_table, after |-> after, executed |-> sd_executed, outcome |-> outcome]

\* The run in progress ends without a commit: the rows its transaction has
\* inserted are rolled back (by connection.rollback() in the except clauses,
\* or with the connection when nothing rolls back), and the committed table
\* stays as it is.
insert_data_abandon(outcome) ==
    /\ sd_runs' = Append(sd_runs, SdFinished(outcome, sd_table))
    /\ sd_pc' = "idle"
    /\ sd_pos' = 0
    /\ sd_work' = {}
    /\ sd_inserted' = 0
    /\ sd_executed' = 0
    /\ UNCHANGED <<sd_table, sd_csv, sd_file>>

\* A check that never takes the table for populated.
already_populated_never(count) == FALSE

\* line 130: if count > 0
already_populated(count) == count > 0

\* lines 124-145: SELECT COUNT(*); return if the table holds a row; open the
\* file.  The SELECT can raise a psycopg2.Error, the open a
\* FileNotFoundError, which is reported without a rollback.
insert_data_begin ==
    /\ sd_pc = "idle"
    /\ Len(sd_runs) < MaxSeedRuns
    /\ \/ insert_data_abandon("db_error_rollback")
       \/ /\ already_populated(Cardinality(sd_table))
          /\ insert_data_abandon("skipped")
       \/ /\ ~already_populated(Cardinality(sd_table))
          /\ ~sd_file
          /\ insert_data_abandon("file_not_found")
       \/ /\ ~already_populated(Cardinality(sd_table))
          /\ sd_file
          /\ sd_pc' = "loop"
          /\ sd_pos' = 0
          /\ sd_work' = sd_table
          /\ sd_inserted' = 0
          /\ sd_executed' = 0
          /\ UNCHANGED <<sd_table, sd_csv, sd_file, sd_runs>>

\* lines 146-161: one turn of the loop over the CSV rows.  float() of a
\* malformed age is a ValueError, caught by `except Exception`; the INSERT
\* can raise a psycopg2.Error; both roll back.  A BaseException leaves
\* insert_data with the transaction open, and the rows go with the
\* connection.
insert_data_row ==
    /\ sd_pc = "loop"
    /\ sd_pos < Len(sd_csv)
    /\ LET line == sd_pos + 1
           row == sd_csv[line]
           run == Len(sd_runs) + 1
       IN \/ /\ ~float_parses(row.age)
             /\ insert_data_abandon("unexpected_error_rollback")
          \/ /\ float_parses(row.age)
             /\ \/ insert_data_abandon("db_error_rollback")
                \/ insert_data_abandon("interrupted")
                \/ /\ sd_work' = insert_on_conflict_do_nothing(sd_work,
                             [user_id |-> row_user_id(row, run, line),
                              name |-> line,
                              age |-> float_of(row.age)])
                   /\ sd_pos' = line
                   /\ sd_inserted' = sd_inserted + 1
                   /\ sd_executed' = sd_executed + 1
                   /\ UNCHANGED <<sd_table, sd_csv, sd_file, sd_pc, sd_runs>>

\* A loop that commits after every row.
insert_data_commit_each_row ==
    /\ sd_pc = "loop"
    /\ sd_pos > 0 \/ sd_pos = Len(sd_csv)
    /\ IF sd_pos = Len(sd_csv)
       THEN /\ sd_runs' = Append(sd_runs, SdFinished("committed", sd_work))
            /\ sd_pc' = "idle"
            /\ sd_pos' = 0
            /\ sd_work' = {}
            /\ sd_inserted' = 0
            /\ sd_executed' = 0
       ELSE UNCHANGED <<sd_runs, sd_pc, sd_pos, sd_work, sd_inserted, sd_executed>>
    /\ sd_table' = sd_work
    /\ UNCHANGED <<sd_csv, sd_file>>

\* lines 163-166: connection.commit() once the loop is over; a commit that
\* raises a psycopg2.Error is rolled back.
insert_data_commit ==
    /\ sd_pc = "loop"
    /\ sd_pos = Len(sd_csv)
    /\ \/ insert_data_abandon("db_error_rollback")
       \/ /\ sd_table' = sd_work
          /\ sd_runs' = Append(sd_runs, SdFinished("committed", sd_work))
          /\ sd_pc' = "idle"
          /\ sd_pos' = 0
          /\ sd_work' = {}
          /\ sd_inserted' = 0
          /\ sd_executed' = 0
          /\ UNCHANGED <<sd_csv, sd_file>>

\* The CSV lines whose row the table keeps when the whole file is loaded
\* into an empty table: every line that generates its user_id, and the first
\* line of every user_id written in the file.
KeptLines ==
    {i \in DOMAIN sd_csv :
        \/ sd_csv[i].user_id = 0
        \/ \A j \in 1..(i - 1) : sd_csv[j].user_id # sd_csv[i].user_id}

\* `table` is the whole file: one row for each kept line, with that line's
\* user_id (or a generated one) and its parsed age.
AllDistinctRows(table) ==
    /\ Cardinality(table) = Cardinality(KeptLines)
    /\ {r.name : r \in table} = KeptLines
    /\ \A r \in table :
          /\ sd_csv[r.name].user_id \in {0, r.user_id}
          /\ float_parses(sd_csv[r.name].age)
          /\ r.age = float_of(sd_csv[r.name].age)
    /\ \A r1, r2 \in table : r1.user_id = r2.user_id => r1 = r2

HasDuplicateId ==
    \E i, j \in DOMAIN sd_csv :
        i < j /\ sd_csv[i].user_id # 0 /\ sd_csv[i].user_id = sd_csv[j].user_id

HasMalformedAge == \E i \in DOMAIN sd_csv : ~float_parses(sd_csv[i].age)

\* C23: a run of insert_data that finds a row in user_data executes no
\* INSERT and leaves the table as it was; a run that follows a committed run
\* over the same CSV leaves the table that run left; and a duplicate user_id
\* is no error: only a malformed age is reported as an unexpected error, and
\* a committed run has executed one INSERT per CSV line and holds one row per
\* distinct user_id.
C23_SeedingIdempotent ==
    \A i \in DOMAIN sd_runs :
        /\ sd_runs[i].before # {} =>
              /\ sd_runs[i].after = sd_runs[i].before
              /\ sd_runs[i].executed = 0
        /\ (i > 1 /\ sd_runs[i - 1].outcome = "committed") =>
              sd_runs[i].after = sd_runs[i - 1].after
        /\ sd_runs[i].outcome = "unexpected_error_rollback" => HasMalformedAge
        /\ sd_runs[i].outcome = "committed" =>
              /\ sd_runs[i].executed = Len(sd_csv)
              /\ AllDistinctRows(sd_runs[i].after)

\* A file with a duplicate user_id is loaded and committed, and the next run
\* over it is skipped.
C23_Witness ==
    /\ HasDuplicateId
    /\ Len(sd_runs) = 2
    /\ sd_runs[1].outcome = "committed"
    /\ sd_runs[1].executed > Cardinality(sd_runs[1].after)
    /\ sd_runs[2].outcome = "skipped"
    /\ sd_runs[2].after = sd_runs[1].after

\* The table user_data held before the first run.
SdInitialTable == IF sd_runs = <<>> THEN sd_table ELSE sd_runs[1].before

\* C30: the committed table is never a part of the file: at every moment it
\* is the table held before the seeding or the whole file, one row per
\* distinct user_id; it is untouched while the loop runs; and a run that
\* ends on a database error or an unexpected error (a malformed age) leaves
\* the table it found.
C30_AllOrNothing ==
    /\ sd_table = SdInitialTable \/ AllDistinctRows(sd_table)
    /\ sd_pc = "loop" => sd_table = {}
    /\ \A i \in DOMAIN sd_runs :
          /\ sd_runs[i].outcome # "committed" => sd_runs[i].after = sd_runs[i].before
          /\ sd_runs[i].outcome = "committed" =>
                /\ sd_runs[i].before = {}
                /\ AllDistinctRows(sd_runs[i].after)

\* A run that had inserted rows when a malformed age stopped it left the
\* empty table it found, and so did the run after it.
C30_Witness ==
    /\ Len(sd_runs) = 2
    /\ \A i \in 1..2 :
          /\ sd_runs[i].outcome = "unexpected_error_rollback"
          /\ sd_runs[i].executed >= 1
          /\ sd_runs[i].after = {}

\* ========================================================================
\* Rate limiting
\* ========================================================================

\* The worker threads, the client addresses get_client_ip returns, and the
\* request methods.
MlThreads == 1..MaxThreads

MlIps == 1..MaxIps

MlMethods == {"POST", "GET"}

MlIdle == [pc |-> "idle", method |-> "GET", ip |-> 1, current_time |-> 0]

MlInit ==
    /\ ml_clock = 0
    /\ ml_times = [ip \in MlIps |-> <<>>]
    /\ ml_thread = [t \in MlThreads |-> MlIdle]
    /\ ml_requests = 0
    /\ ml_admitted = [ip \in MlIps |-> <<>>]
    /\ ml_limited = {}

\* Time passes between two readings of datetime.now().
datetime_now_advances ==
    /\ ml_clock + ClockStep <= MaxClock
    /\ ml_clock' = ml_clock + ClockStep
    /\ UNCHANGED <<ml_times, ml_thread, ml_requests, ml_admitted, ml_limited>>

\* lines 135-138: a thread takes a request; for a POST it reads the client
\* address and the current time, before it asks for the lock.  Any other
\* request goes straight to get_response.
OffensiveLanguageMiddleware_call(t) ==
    /\ ml_thread[t].pc = "idle"
    /\ ml_requests < MaxRequests
    /\ ml_requests' = ml_requests + 1
    /\ \E method \in MlMethods, ip \in MlIps :
          ml_thread' = [ml_thread EXCEPT ![t] =
              IF method = "POST"
              THEN [pc |-> "stamped", method |-> method, ip |-> ip,
                    current_time |-> ml_clock]
              ELSE [pc |-> "forward", method |-> method, ip |-> ip,
                    current_time |-> 0]]
    /\ UNCHANGED <<ml_clock, ml_times, ml_admitted, ml_limited>>

\* lines 145-149: the timestamps of the list younger than the cutoff.
kept_request_times(request_times, cutoff_time) ==
    SelectSeq(request_times, LAMBDA req_time : req_time > cutoff_time)

\* lines 140-163: under the lock, the thread prunes the list of its address
\* with the cutoff of its own current_time, answers 429 if max_requests
\* timestamps remain, and appends its current_time otherwise.  The block runs
\* with the lock held, so the blocks of two threads never overlap.
OffensiveLanguageMiddleware_with_lock(t) ==
    /\ ml_thread[t].pc = "stamped"
    /\ LET ip_address == ml_thread[t].ip
           current_time == ml_thread[t].current_time
           cutoff_time == current_time - time_window
           request_times == kept_request_times(ml_times[ip_address], cutoff_time)
       IN IF Len(request_times) >= max_requests
          THEN /\ ml_times' = [ml_times EXCEPT ![ip_address] = request_times]
               /\ ml_limited' = ml_limited \cup {ml_thread[t].method}
               /\ ml_thread' = [ml_thread EXCEPT ![t] = MlIdle]
               /\ UNCHANGED ml_admitted
          ELSE /\ ml_times' = [ml_times EXCEPT ![ip_address] =
                                  Append(request_times, current_time)]
               /\ ml_thread' = [ml_thread EXCEPT ![t].pc = "forward"]
               /\ UNCHANGED <<ml_admitted, ml_limited>>
    /\ UNCHANGED <<ml_clock, ml_requests>>

\* line 166: the request is handed to get_response.
OffensiveLanguageMiddleware_get_response(t) ==
    /\ ml_thread[t].pc = "forward"
    /\ ml_admitted' =
          IF ml_thread[t].method = "POST"
          THEN [ml_admitted EXCEPT ![ml_thread[t].ip] =
                   Append(@, ml_thread[t].current_time)]
          ELSE ml_admitted
    /\ ml_thread' = [ml_thread EXCEPT ![t] = MlIdle]
    /\ UNCHANGED <<ml_clock, ml_times, ml_requests, ml_limited>>

\* The admitted POSTs of `ip` whose recorded timestamps lie in the
\* 60-second window that starts at `from`.
AdmittedInWindow(ip, from) ==
    {k \in DOMAIN ml_admitted[ip] :
        from <= ml_admitted[ip][k] /\ ml_admitted[ip][k] < from + time_window}

\* C26: for every client address and every 60-second window, at most
\* max_requests admitted POSTs have their recorded timestamp in the window;
\* a request that is not a POST is never answered 429 and never waits for
\* the lock.
C26_AtMostFivePerWindow ==
    /\ \A ip \in MlIps : \A from \in 0..MaxClock :
          Cardinality(AdmittedInWindow(ip, from)) <= max_requests
    /\ ml_limited \subseteq {"POST"}
    /\ \A t \in MlThreads :
          ml_thread[t].method # "POST" => ml_thread[t].pc \in {"idle", "forward"}

\* ========================================================================
\* Specifications
\* ========================================================================

\* Each specification starts its own component from its initial states and
\* keeps the other components at rest.
RtRest ==
    /\ rt_retries = 3
    /\ rt_delay = 2
    /\ rt_pc = "idle"
    /\ rt_attempt = 0
    /\ rt_last = 0
    /\ rt_invoked = 0
    /\ rt_events = <<>>
    /\ rt_calls = <<>>

StRest ==
    /\ st_kind = "stream_users"
    /\ st_batch_size = 0
    /\ st_rows = <<>>
    /\ st_gen = "created"
    /\ st_conn = "none"
    /\ st_closes = 0
    /\ st_pos = 0
    /\ st_out = <<>>
    /\ st_err = "none"
    /\ st_end = "none"

PgRest ==
    /\ pg_rows = <<>>
    /\ pg_page_size = 1
    /\ pg_gen = "created"
    /\ pg_offset = 0
    /\ pg_requests = 0
    /\ pg_fetches = <<>>
    /\ pg_out = <<>>
    /\ pg_end = "none"

AcRest ==
    /\ ac_users = <<>>
    /\ ac_fc = "idle"
    /\ ac_fc_results = <<>>
    /\ ac_fc_exc = NoExc
    /\ ac_task = [t \in Coros |-> TaskNotCreated]
    /\ ac_conns = <<>>
    /\ ac_gather = GatherPending

SdRest ==
    /\ sd_table = {}
    /\ sd_csv = <<>>
    /\ sd_file = TRUE
    /\ sd_pc = "idle"
    /\ sd_pos = 0
    /\ sd_work = {}
    /\ sd_inserted = 0
    /\ sd_executed = 0
    /\ sd_runs = <<>>

MlRest ==
    /\ ml_clock = 0
    /\ ml_times = <<>>
    /\ ml_thread = <<>>
    /\ ml_requests = 0
    /\ ml_admitted = <<>>
    /\ ml_limited = {}

\* ---- the connection scopes: calls through with_db_connection, with
\* DatabaseConnection blocks and with ExecuteQuery blocks, one after the
\* other.
ScopeFrame == UNCHANGED <<txVars, rtVars, chVars, stVars, pgVars, acVars, eqVars, ueVars, frVars, fcVars, sdVars, mlVars>>

EqFrame == UNCHANGED <<scopeVars, txVars, rtVars, chVars, stVars, pgVars, acVars, ueVars, frVars, fcVars, sdVars, mlVars>>

InitScope == ScopeInit /\ TxInit /\ RtRest /\ ChInit /\ StRest /\ PgRest /\ AcRest /\ EqInit /\ UeInit /\ FrInit /\ FcInit /\ SdRest /\ MlRest

NextScope ==
    \/ CallerIdle /\ with_db_connection_connect /\ ScopeFrame
    \/ with_db_connection_func /\ ScopeFrame
    \/ with_db_connection_finally /\ ScopeFrame
    \/ CallerIdle /\ DatabaseConnection_init /\ ScopeFrame
    \/ CallerIdle /\ DatabaseConnection_enter /\ ScopeFrame
    \/ DatabaseConnection_body /\ ScopeFrame
    \/ DatabaseConnection_exit /\ ScopeFrame
    \/ ExecuteQuery_init /\ EqFrame
    \/ ExecuteQuery_enter /\ EqFrame
    \/ ExecuteQuery_body /\ EqFrame
    \/ ExecuteQuery_exit /\ EqFrame

SpecScope == InitScope /\ [][NextScope]_vars

\* ---- the transaction guard: calls of a transactional-wrapped function.
TxFrame == UNCHANGED <<scopeVars, rtVars, chVars, stVars, pgVars, acVars, eqVars, ueVars, frVars, fcVars, sdVars, mlVars>>

InitTx == ScopeInit /\ TxInit /\ RtRest /\ ChInit /\ StRest /\ PgRest /\ AcRest /\ EqInit /\ UeInit /\ FrInit /\ FcInit /\ SdRest /\ MlRest

NextTx ==
    \/ transactional_func /\ TxFrame
    \/ transactional_commit /\ TxFrame
    \/ transactional_except /\ TxFrame

SpecTx == InitTx /\ [][NextTx]_vars

\* ---- the retry policy: calls of a function wrapped by
\* retry_on_failure(retries, delay), for each retries and delay.
RtFrame == UNCHANGED <<scopeVars, txVars, chVars, stVars, pgVars, acVars, eqVars, ueVars, frVars, fcVars, sdVars, mlVars>>

InitRetry == ScopeInit /\ TxInit /\ RtInit /\ ChInit /\ StRest /\ PgRest /\ AcRest /\ EqInit /\ UeInit /\ FrInit /\ FcInit /\ SdRest /\ MlRest

NextRetry ==
    \/ retry_on_failure_call /\ RtFrame
    \/ retry_on_failure_attempt /\ RtFrame
    \/ retry_on_failure_sleep /\ RtFrame
    \/ retry_on_failure_raise /\ RtFrame

SpecRetry == InitRetry /\ [][NextRetry]_vars

\* ---- the result cache in sequential use: one caller, one call at a time.
ChFrame == UNCHANGED <<scopeVars, txVars, rtVars, stVars, pgVars, acVars, eqVars, ueVars, frVars, fcVars, sdVars, mlVars>>

InitCache == ScopeInit /\ TxInit /\ RtRest /\ ChInit /\ StRest /\ PgRest /\ AcRest /\ EqInit /\ UeInit /\ FrInit /\ FcInit /\ SdRest /\ MlRest

NextCache ==
    \/ cache_query_check(1) /\ ChFrame
    \/ cache_query_func(1) /\ ChFrame
    \/ cache_query_store(1) /\ ChFrame

SpecCache == InitCache /\ [][NextCache]_vars

\* ---- the result cache in concurrent use: the callers' steps interleave.
InitCacheConc == ScopeInit /\ TxInit /\ RtRest /\ ChInit /\ StRest /\ PgRest /\ AcRest /\ EqInit /\ UeInit /\ FrInit /\ FcInit /\ SdRest /\ MlRest

NextCacheConc ==
    \E t \in Threads :
       \/ cache_query_check(t) /\ ChFrame
       \/ cache_query_func(t) /\ ChFrame
       \/ cache_query_store(t) /\ ChFrame

SpecCacheConc == InitCacheConc /\ [][NextCacheConc]_vars

\* ---- the streaming generators: one generator, of each of the three
\* functions, over each result set, resumed and abandoned by its consumer.
StFrame == UNCHANGED <<scopeVars, txVars, rtVars, chVars, pgVars, acVars, eqVars, ueVars, frVars, fcVars, sdVars, mlVars>>

InitStream == ScopeInit /\ TxInit /\ RtRest /\ ChInit /\ StInit /\ PgRest /\ AcRest /\ EqInit /\ UeInit /\ FrInit /\ FcInit /\ SdRest /\ MlRest

NextStream ==
    \/ stream_users_next /\ StFrame
    \/ stream_users_in_batches_next /\ StFrame
    \/ stream_user_ages_next /\ StFrame
    \/ generator_close /\ StFrame

SpecStream == InitStream /\ [][NextStream]_vars

\* ---- the lazy paginator: one lazy_pagination generator and its consumer.
PgFrame == UNCHANGED <<scopeVars, txVars, rtVars, chVars, stVars, acVars, eqVars, ueVars, frVars, fcVars, sdVars, mlVars>>

InitPaginate == ScopeInit /\ TxInit /\ RtRest /\ ChInit /\ StRest /\ PgInit /\ AcRest /\ EqInit /\ UeInit /\ FrInit /\ FcInit /\ SdRest /\ MlRest

NextPaginate ==
    \/ lazy_pagination_next /\ PgFrame
    \/ lazy_pagination_close /\ PgFrame

SpecPaginate == InitPaginate /\ [][NextPaginate]_vars

\* ---- the concurrent orchestrator: one run of fetch_concurrently, its two
\* tasks interleaved at their awaits.
AcFrame == UNCHANGED <<scopeVars, txVars, rtVars, chVars, stVars, pgVars, eqVars, ueVars, frVars, fcVars, sdVars, mlVars>>

InitConcurrent == ScopeInit /\ TxInit /\ RtRest /\ ChInit /\ StRest /\ PgRest /\ AcInit /\ EqInit /\ UeInit /\ FrInit /\ FcInit /\ SdRest /\ MlRest

NextConcurrent ==
    \/ fetch_concurrently_call /\ AcFrame
    \/ \E t \in Coros : async_fetch_connect(t) /\ AcFrame
    \/ \E t \in Coros : async_fetch_execute(t) /\ AcFrame
    \/ \E t \in Coros : async_fetch_fetchall(t) /\ AcFrame
    \/ \E t \in Coros : async_fetch_return(t) /\ AcFrame
    \/ \E t \in Coros : async_fetch_cancelled(t) /\ AcFrame
    \/ fetch_concurrently_resume /\ AcFrame

SpecConcurrent == InitConcurrent /\ [][NextConcurrent]_vars

\* ---- the transactional update: calls of update_user_email, one after the
\* other.
UeFrame == UNCHANGED <<rtVars, chVars, stVars, pgVars, acVars, eqVars, frVars, fcVars, sdVars, mlVars>>

InitUpdate == ScopeInit /\ TxInit /\ RtRest /\ ChInit /\ StRest /\ PgRest /\ AcRest /\ EqInit /\ UeInit /\ FrInit /\ FcInit /\ SdRest /\ MlRest

NextUpdate ==
    \/ update_user_email_connect /\ UeFrame
    \/ update_user_email_func /\ UeFrame
    \/ update_user_email_commit /\ UeFrame
    \/ update_user_email_except /\ UeFrame
    \/ update_user_email_return /\ UeFrame
    \/ update_user_email_finally /\ UeFrame

SpecUpdate == InitUpdate /\ [][NextUpdate]_vars

\* ---- the retried fetch: calls of fetch_users_with_retry, one after the
\* other.
FrFrame == UNCHANGED <<txVars, chVars, stVars, pgVars, acVars, eqVars, ueVars, fcVars, sdVars, mlVars>>

InitFetchRetry == ScopeInit /\ TxInit /\ FrRtInit /\ ChInit /\ StRest /\ PgRest /\ AcRest /\ EqInit /\ UeInit /\ FrInit /\ FcInit /\ SdRest /\ MlRest

NextFetchRetry ==
    \/ fetch_users_with_retry_connect /\ FrFrame
    \/ fetch_users_with_retry_call /\ FrFrame
    \/ fetch_users_with_retry_attempt /\ FrFrame
    \/ fetch_users_with_retry_sleep /\ FrFrame
    \/ fetch_users_with_retry_raise /\ FrFrame
    \/ fetch_users_with_retry_return /\ FrFrame
    \/ fetch_users_with_retry_finally /\ FrFrame

SpecFetchRetry == InitFetchRetry /\ [][NextFetchRetry]_vars

\* ---- the cached fetch: calls of fetch_users_with_cache by one caller, one
\* after the other.
FcFrame == UNCHANGED <<txVars, rtVars, stVars, pgVars, acVars, eqVars, ueVars, frVars, sdVars, mlVars>>

InitFetchCache == ScopeInit /\ TxInit /\ RtRest /\ ChInit /\ StRest /\ PgRest /\ AcRest /\ EqInit /\ UeInit /\ FrInit /\ FcInit /\ SdRest /\ MlRest

NextFetchCache ==
    \/ fetch_users_with_cache_connect /\ FcFrame
    \/ fetch_users_with_cache_check /\ FcFrame
    \/ fetch_users_with_cache_func /\ FcFrame
    \/ fetch_users_with_cache_store /\ FcFrame
    \/ fetch_users_with_cache_return /\ FcFrame
    \/ fetch_users_with_cache_finally /\ FcFrame

SpecFetchCache == InitFetchCache /\ [][NextFetchCache]_vars

\* ---- seeding: runs of insert_data over the same CSV file, one after the
\* other, each on a connection of its own.
SdFrame == UNCHANGED <<scopeVars, txVars, rtVars, chVars, stVars, pgVars, acVars, eqVars, ueVars, frVars, fcVars, mlVars>>

InitSeed == ScopeInit /\ TxInit /\ RtRest /\ ChInit /\ StRest /\ PgRest /\ AcRest /\ EqInit /\ UeInit /\ FrInit /\ FcInit /\ SdInit /\ MlRest

NextSeed ==
    \/ insert_data_begin /\ SdFrame
    \/ insert_data_row /\ SdFrame
    \/ insert_data_commit /\ SdFrame

SpecSeed == InitSeed /\ [][NextSeed]_vars

\* ---- rate limiting: worker threads of one process serve requests through
\* one OffensiveLanguageMiddleware while the clock advances.
MlFrame == UNCHANGED <<scopeVars, txVars, rtVars, chVars, stVars, pgVars, acVars, eqVars, ueVars, frVars, fcVars, sdVars>>

InitRateLimit == ScopeInit /\ TxInit /\ RtRest /\ ChInit /\ StRest /\ PgRest /\ AcRest /\ EqInit /\ UeInit /\ FrInit /\ FcInit /\ SdRest /\ MlInit

NextRateLimit ==
    \/ datetime_now_advances /\ MlFrame
    \/ (\E t \in MlThreads : OffensiveLanguageMiddleware_call(t)) /\ MlFrame
    \/ (\E t \in MlThreads : OffensiveLanguageMiddleware_with_lock(t)) /\ MlFrame
    \/ (\E t \in MlThreads : OffensiveLanguageMiddleware_get_response(t)) /\ MlFrame

SpecRateLimit == InitRateLimit /\ [][NextRateLimit]_vars

====
